---- MODULE Spec2Model ----
(***************************************************************************)
(* Model of the rblhost MCU-bootloader host library: the frame codec, the  *)
(* UART / I2C / USB-HID link layer and the command engine (McuBoot) with   *)
(* its outbound and inbound data phases.  The device at the other end of   *)
(* the link is the environment: every byte it sends is a nondeterministic  *)
(* input drawn from the small sets defined below.                          *)
(***************************************************************************)
EXTENDS Integers, Sequences, FiniteSets, TLC

(***************************************************************************)
(* Bounds of the model.                                                    *)
(***************************************************************************)
\* longest byte string handed to an operation with an outbound data phase
MaxData == 3
\* largest MaxPacketSize value and largest declared inbound length the device reports
MaxSize == 2
\* most DATA frames the device sends to the host during one operation
\* most two-byte pairs an I2C acknowledgment wait skips during one operation
MaxBusy == 1
\* most parameter words of a constructed command frame
MaxParams == 2
\* most bytes of a short payload handed to the codec
MaxLen == 2
\* length of the long payload handed to the codec
LongLen == 260
\* most frames written on a session after its link was opened
MaxWrites == 2
\* the length of the long input of the data-phase writer: the first length that
\* does not fit the 16-bit length field of a frame
HugeLen == 65536

(***************************************************************************)
(* Wire constants.                                                         *)
(***************************************************************************)
START == 90
ACK == 161
NACK == 162
ACK_ABORT == 163
CMD == 164
DATA_PHASE_CODE == 165
PING == 166
PINGR == 167
CMD_OUT == 1
DATA_OUT == 2
CMD_IN == 3
DATA_IN == 4
MAX_PACKET_SIZE == 1024
MAX_PING_RESPONSE_DUMMY_BYTES == 50

NoData == 0
HasDataPhase == 1

(***************************************************************************)
(* Sequence and integer helpers.                                           *)
(***************************************************************************)
Min(a, b) == IF a < b THEN a ELSE b

Drop(s, n) == IF n >= Len(s) THEN <<>> ELSE SubSeq(s, n + 1, Len(s))

Take(s, n) == IF n >= Len(s) THEN s ELSE SubSeq(s, 1, n)

RECURSIVE Concat(_)
Concat(ss) == IF ss = <<>> THEN <<>> ELSE Head(ss) \o Concat(Tail(ss))

\* exclusive or and conjunction of two 4-bit values, tabulated
XorNibble ==
    << <<  0,  1,  2,  3,  4,  5,  6,  7,  8,  9, 10, 11, 12, 13, 14, 15 >>,
       <<  1,  0,  3,  2,  5,  4,  7,  6,  9,  8, 11, 10, 13, 12, 15, 14 >>,
       <<  2,  3,  0,  1,  6,  7,  4,  5, 10, 11,  8,  9, 14, 15, 12, 13 >>,
       <<  3,  2,  1,  0,  7,  6,  5,  4, 11, 10,  9,  8, 15, 14, 13, 12 >>,
       <<  4,  5,  6,  7,  0,  1,  2,  3, 12, 13, 14, 15,  8,  9, 10, 11 >>,
       <<  5,  4,  7,  6,  1,  0,  3,  2, 13, 12, 15, 14,  9,  8, 11, 10 >>,
       <<  6,  7,  4,  5,  2,  3,  0,  1, 14, 15, 12, 13, 10, 11,  8,  9 >>,
       <<  7,  6,  5,  4,  3,  2,  1,  0, 15, 14, 13, 12, 11, 10,  9,  8 >>,
       <<  8,  9, 10, 11, 12, 13, 14, 15,  0,  1,  2,  3,  4,  5,  6,  7 >>,
       <<  9,  8, 11, 10, 13, 12, 15, 14,  1,  0,  3,  2,  5,  4,  7,  6 >>,
       << 10, 11,  8,  9, 14, 15, 12, 13,  2,  3,  0,  1,  6,  7,  4,  5 >>,
       << 11, 10,  9,  8, 15, 14, 13, 12,  3,  2,  1,  0,  7,  6,  5,  4 >>,
       << 12, 13, 14, 15,  8,  9, 10, 11,  4,  5,  6,  7,  0,  1,  2,  3 >>,
       << 13, 12, 15, 14,  9,  8, 11, 10,  5,  4,  7,  6,  1,  0,  3,  2 >>,
       << 14, 15, 12, 13, 10, 11,  8,  9,  6,  7,  4,  5,  2,  3,  0,  1 >>,
       << 15, 14, 13, 12, 11, 10,  9,  8,  7,  6,  5,  4,  3,  2,  1,  0 >> >>

AndNibble ==
    << <<  0,  0,  0,  0,  0,  0,  0,  0,  0,  0,  0,  0,  0,  0,  0,  0 >>,
       <<  0,  1,  0,  1,  0,  1,  0,  1,  0,  1,  0,  1,  0,  1,  0,  1 >>,
       <<  0,  0,  2,  2,  0,  0,  2,  2,  0,  0,  2,  2,  0,  0,  2,  2 >>,
       <<  0,  1,  2,  3,  0,  1,  2,  3,  0,  1,  2,  3,  0,  1,  2,  3 >>,
       <<  0,  0,  0,  0,  4,  4,  4,  4,  0,  0,  0,  0,  4,  4,  4,  4 >>,
       <<  0,  1,  0,  1,  4,  5,  4,  5,  0,  1,  0,  1,  4,  5,  4,  5 >>,
       <<  0,  0,  2,  2,  4,  4,  6,  6,  0,  0,  2,  2,  4,  4,  6,  6 >>,
       <<  0,  1,  2,  3,  4,  5,  6,  7,  0,  1,  2,  3,  4,  5,  6,  7 >>,
       <<  0,  0,  0,  0,  0,  0,  0,  0,  8,  8,  8,  8,  8,  8,  8,  8 >>,
       <<  0,  1,  0,  1,  0,  1,  0,  1,  8,  9,  8,  9,  8,  9,  8,  9 >>,
       <<  0,  0,  2,  2,  0,  0,  2,  2,  8,  8, 10, 10,  8,  8, 10, 10 >>,
       <<  0,  1,  2,  3,  0,  1,  2,  3,  8,  9, 10, 11,  8,  9, 10, 11 >>,
       <<  0,  0,  0,  0,  4,  4,  4,  4,  8,  8,  8,  8, 12, 12, 12, 12 >>,
       <<  0,  1,  0,  1,  4,  5,  4,  5,  8,  9,  8,  9, 12, 13, 12, 13 >>,
       <<  0,  0,  2,  2,  4,  4,  6,  6,  8,  8, 10, 10, 12, 12, 14, 14 >>,
       <<  0,  1,  2,  3,  4,  5,  6,  7,  8,  9, 10, 11, 12, 13, 14, 15 >> >>

\* bitwise exclusive or and bitwise and of naturals, four bits at a time
XorBits[a \in Nat, b \in Nat] ==
    IF a = 0 THEN b
    ELSE IF b = 0 THEN a
    ELSE XorNibble[(a % 16) + 1][(b % 16) + 1] + 16 * XorBits[a \div 16, b \div 16]

Xor(a, b) == XorBits[a, b]

AndBits[a \in Nat, b \in Nat] ==
    IF a = 0 \/ b = 0 THEN 0
    ELSE AndNibble[(a % 16) + 1][(b % 16) + 1] + 16 * AndBits[a \div 16, b \div 16]

BitAnd(a, b) == AndBits[a, b]

\* u16::to_le_bytes, u32::to_le_bytes and their inverses
U16LE(n) == << n % 256, (n \div 256) % 256 >>

U32LE(n) == << n % 256, (n \div 256) % 256, (n \div 65536) % 256, (n \div 16777216) % 256 >>

FromLE16(b) == b[1] + 256 * b[2]

FromLE32(b) == b[1] + 256 * b[2] + 65536 * b[3] + 16777216 * b[4]

(***************************************************************************)
(* Codec: CRC-16/XMODEM and frame construction.                            *)
(***************************************************************************)
\* CRC-16/XMODEM (polynomial 0x1021, initial value 0, no reflection, no final xor).
\* CrcTable[b + 1] is the remainder of the byte b shifted through the polynomial.
CrcTable ==
    <<0,  4129,  8258, 12387, 16516, 20645, 24774, 28903,
       33032, 37161, 41290, 45419, 49548, 53677, 57806, 61935,
        4657,   528, 12915,  8786, 21173, 17044, 29431, 25302,
       37689, 33560, 45947, 41818, 54205, 50076, 62463, 58334,
        9314, 13379,  1056,  5121, 25830, 29895, 17572, 21637,
       42346, 46411, 34088, 38153, 58862, 62927, 50604, 54669,
       13907,  9842,  5649,  1584, 30423, 26358, 22165, 18100,
       46939, 42874, 38681, 34616, 63455, 59390, 55197, 51132,
       18628, 22757, 26758, 30887,  2112,  6241, 10242, 14371,
       51660, 55789, 59790, 63919, 35144, 39273, 43274, 47403,
       23285, 19156, 31415, 27286,  6769,  2640, 14899, 10770,
       56317, 52188, 64447, 60318, 39801, 35672, 47931, 43802,
       27814, 31879, 19684, 23749, 11298, 15363,  3168,  7233,
       60846, 64911, 52716, 56781, 44330, 48395, 36200, 40265,
       32407, 28342, 24277, 20212, 15891, 11826,  7761,  3696,
       65439, 61374, 57309, 53244, 48923, 44858, 40793, 36728,
       37256, 33193, 45514, 41451, 53516, 49453, 61774, 57711,
        4224,   161, 12482,  8419, 20484, 16421, 28742, 24679,
       33721, 37784, 41979, 46042, 49981, 54044, 58239, 62302,
         689,  4752,  8947, 13010, 16949, 21012, 25207, 29270,
       46570, 42443, 38312, 34185, 62830, 58703, 54572, 50445,
       13538,  9411,  5280,  1153, 29798, 25671, 21540, 17413,
       42971, 47098, 34713, 38840, 59231, 63358, 50973, 55100,
        9939, 14066,  1681,  5808, 26199, 30326, 17941, 22068,
       55628, 51565, 63758, 59695, 39368, 35305, 47498, 43435,
       22596, 18533, 30726, 26663,  6336,  2273, 14466, 10403,
       52093, 56156, 60223, 64286, 35833, 39896, 43963, 48026,
       19061, 23124, 27191, 31254,  2801,  6864, 10931, 14994,
       64814, 60687, 56684, 52557, 48554, 44427, 40424, 36297,
       31782, 27655, 23652, 19525, 15522, 11395,  7392,  3265,
       61215, 65342, 53085, 57212, 44955, 49082, 36825, 40952,
       28183, 32310, 20053, 24180, 11923, 16050,  3793,  7920 >>

\* one byte folded into the running remainder
CrcByte[crc \in Nat, byte \in Nat] ==
    Xor((crc % 256) * 256, CrcTable[Xor(crc \div 256, byte) + 1])

\* the bytes folded in order into the remainder crc, a long string half by half
RECURSIVE CrcFold(_, _)
CrcFold(crc, bytes) ==
    IF bytes = <<>> THEN crc
    ELSE IF Len(bytes) = 1 THEN CrcByte[crc, bytes[1]]
    ELSE LET h    == Len(bytes) \div 2
             left == CrcFold(crc, SubSeq(bytes, 1, h))
         IN  IF left \in Nat THEN CrcFold(left, SubSeq(bytes, h + 1, Len(bytes))) ELSE 0

CRC_CHECK(bytes) == CrcFold(0, bytes)

\* a header whose CRC field is written most significant byte first
construct_header_crc_big_endian(packet_code, data) ==
    LET length == U16LE(Len(data) % 65536)
        v      == << START, packet_code, length[1], length[2] >> \o data
        crc    == CRC_CHECK(v)
    IN  SubSeq(v, 1, 4) \o << crc \div 256, crc % 256 >> \o data

\* packets.rs construct_header: 5A, code, length LE, crc LE, payload
construct_header(packet_code, data) ==
    LET length == U16LE(Len(data) % 65536)
        v      == << START, packet_code, length[1], length[2] >> \o data
        crc    == U16LE(CRC_CHECK(v))
    IN  SubSeq(v, 1, 4) \o crc \o data

\* a frame whose parameter words are written most significant byte first
construct_frame_big_endian(flag, params, command_code) ==
    construct_header(CMD,
        << command_code, flag, 0, Len(params) % 256 >>
            \o Concat([i \in 1..Len(params) |->
                          << (params[i] \div 16777216) % 256, (params[i] \div 65536) % 256,
                             (params[i] \div 256) % 256, params[i] % 256 >>]))

\* CommandHeader::construct_frame: code, flag, reserved, param count, params LE
construct_frame(flag, params, command_code) ==
    construct_header(CMD,
        << command_code, flag, 0, Len(params) % 256 >>
            \o Concat([i \in 1..Len(params) |-> U32LE(params[i])]))

\* DataPhasePacket::construct
construct_data(bytes) == construct_header(DATA_PHASE_CODE, bytes)

(***************************************************************************)
(* Link layer.  A link operation is a function of the bytes the device     *)
(* supplies; it yields the result handed to the engine and the sequence of *)
(* link events (reads and writes on the transport handle) it performed.    *)
(***************************************************************************)
Tx(part, bytes) == [e |-> "tx", part |-> part, bytes |-> bytes, n |-> Len(bytes)]

Rx(part, bytes, n) == [e |-> "rx", part |-> part, bytes |-> bytes, n |-> n]

LinkOk(payload, ev) == [err |-> "Ok", payload |-> payload, ev |-> ev]

LinkErr(err, ev) == [err |-> err, payload |-> <<>>, ev |-> ev]

\* a read_ack that looks at the kind byte only
UART_read_ack_kind_only(a) ==
    IF a = <<>> THEN LinkErr("Timeout", <<>>)
    ELSE LET buf == Head(a)
             ev  == << Rx("ack", buf, 2) >>
         IN  IF buf[2] = ACK THEN LinkOk(<<>>, ev)
             ELSE IF buf[2] = NACK THEN LinkErr("NACKSent", ev)
             ELSE IF buf[2] = ACK_ABORT THEN LinkErr("Aborted", ev)
             ELSE LinkErr("InvalidHeader", ev)

\* uart.rs read_ack: one two-byte read decides; no pair before the timeout gives Timeout
UART_read_ack(a) ==
    IF a = <<>> THEN LinkErr("Timeout", <<>>)
    ELSE LET buf == Head(a)
             ev  == << Rx("ack", buf, 2) >>
         IN  IF buf[1] # START THEN LinkErr("InvalidHeader", ev)
             ELSE IF buf[2] = ACK THEN LinkOk(<<>>, ev)
             ELSE IF buf[2] = NACK THEN LinkErr("NACKSent", ev)
             ELSE IF buf[2] = ACK_ABORT THEN LinkErr("Aborted", ev)
             ELSE LinkErr("InvalidHeader", ev)

\* an I2C read_ack that decides on the first pair, as the UART one does
I2C_read_ack_no_polling(a) == UART_read_ack(a)

\* i2c_unix.rs read_ack: busy, foreign and unknown pairs are skipped until the timeout
RECURSIVE I2C_read_ack(_)
I2C_read_ack(a) ==
    IF a = <<>> THEN LinkErr("Timeout", <<>>)
    ELSE LET buf  == Head(a)
             ev   == << Rx("ack", buf, 2) >>
             rest == I2C_read_ack(Tail(a))
             skip == [rest EXCEPT !.ev = ev \o rest.ev]
         IN  IF buf[1] = 0 THEN skip
             ELSE IF buf[1] # START THEN skip
             ELSE IF buf[2] = ACK THEN LinkOk(<<>>, ev)
             ELSE IF buf[2] = NACK THEN LinkErr("NACKSent", ev)
             ELSE IF buf[2] = ACK_ABORT THEN LinkErr("Aborted", ev)
             ELSE skip

\* uart.rs write_packet_raw: write the frame, then read the acknowledgment
UART_write_packet_raw(data, a) ==
    LET r == UART_read_ack(a)
    IN  [r EXCEPT !.ev = << Tx("frame", data) >> \o r.ev]

\* i2c_unix.rs write_packet_raw
I2C_write_packet_raw(data, a) ==
    LET r == I2C_read_ack(a)
    IN  [r EXCEPT !.ev = << Tx("frame", data) >> \o r.ev]

\* a write that leaves the two CRC bytes in front of the report data
USB_write_packet_raw_with_crc(data, a) ==
    IF Len(data) < 6 \/ data[1] # START THEN LinkErr("InvalidHeader", <<>>)
    ELSE LET cmd_type == data[2]
             data_len == FromLE16(<< data[3], data[4] >>)
         IN  IF Len(data) < 6 + data_len THEN LinkErr("InvalidData", <<>>)
             ELSE IF cmd_type \notin {CMD, DATA_PHASE_CODE} THEN LinkErr("InvalidHeader", <<>>)
             ELSE LET cmd_data  == SubSeq(data, 5, 6 + data_len)
                      report_id == IF cmd_type = CMD THEN CMD_OUT ELSE DATA_OUT
                      report    == << report_id, 0, data[3], data[4] >> \o cmd_data
                  IN  LinkOk(<<>>, << Tx("report", report) >>)

\* usb.rs write_packet_raw: unwrap the UART-style frame into one HID report, no read
USB_write_packet_raw(data, a) ==
    IF Len(data) < 6 \/ data[1] # START THEN LinkErr("InvalidHeader", <<>>)
    ELSE LET cmd_type == data[2]
             data_len == FromLE16(<< data[3], data[4] >>)
         IN  IF Len(data) < 6 + data_len THEN LinkErr("InvalidData", <<>>)
             ELSE IF cmd_type \notin {CMD, DATA_PHASE_CODE} THEN LinkErr("InvalidHeader", <<>>)
             ELSE LET cmd_data  == SubSeq(data, 7, 6 + data_len)
                      report_id == IF cmd_type = CMD THEN CMD_OUT ELSE DATA_OUT
                      report    == << report_id, 0, Len(cmd_data) % 256,
                                      (Len(cmd_data) \div 256) % 256 >> \o cmd_data
                  IN  LinkOk(<<>>, << Tx("report", report) >>)

\* uart.rs read_packet_raw; d is what the device puts on the wire:
\* d.io = 1: nothing arrives; d.io = 4: the stream ends before the payload is complete
UART_read_packet_raw(packet_code, d) ==
    IF d.io = 1 THEN LinkErr("IOError", <<>>)
    ELSE IF d.hdr # << START, packet_code >>
    THEN LinkErr("InvalidHeader", << Rx("hdr", d.hdr, 2) >>)
    ELSE IF d.io = 4
    THEN LinkErr("IOError", << Rx("hdr", d.hdr, 2), Rx("len", <<>>, 2), Rx("crc", <<>>, 2) >>)
    ELSE LET data   == d.hdr \o U16LE(d.len) \o d.payload
             length == d.len
             crc    == d.crc
             ev     == << Rx("hdr", d.hdr, 2), Rx("len", <<>>, 2), Rx("crc", <<>>, 2),
                          Rx("payload", <<>>, length), Tx("ack", << START, ACK >>) >>
         IN  IF CRC_CHECK(data) # crc THEN LinkErr("InvalidCrc", ev)
             ELSE IF length = 0 THEN LinkErr("Aborted", ev)
             ELSE LinkOk(Drop(data, 4), ev)

\* i2c_unix.rs read_packet_raw
I2C_read_packet_raw(packet_code, d) ==
    IF d.io = 1 THEN LinkErr("IOError", <<>>)
    ELSE IF d.hdr # << START, packet_code >>
    THEN LinkErr("InvalidHeader", << Rx("hdr", d.hdr, 2) >>)
    ELSE IF d.io = 4
    THEN LinkErr("IOError", << Rx("hdr", d.hdr, 2), Rx("len", <<>>, 2), Rx("crc", <<>>, 2) >>)
    ELSE LET data   == d.hdr \o U16LE(d.len) \o d.payload
             length == d.len
             crc    == d.crc
             ev     == << Rx("hdr", d.hdr, 2), Rx("len", <<>>, 2), Rx("crc", <<>>, 2),
                          Rx("payload", <<>>, length), Tx("ack", << START, ACK >>) >>
         IN  IF CRC_CHECK(data) # crc THEN LinkErr("InvalidCrc", ev)
             ELSE IF length = 0 THEN LinkErr("Aborted", ev)
             ELSE LinkOk(Drop(data, 4), ev)

\* usb.rs read_packet_raw; d.report holds the d.size bytes received into a
\* zero-filled buffer of MAX_PACKET_SIZE bytes; the expected type is ignored
USB_read_packet_raw(packet_code, d) ==
    IF d.io = 1 THEN LinkErr("IOError", <<>>)
    ELSE LET size   == Len(d.report)
             at(i)  == IF i <= size THEN d.report[i] ELSE 0
             ev     == << Rx("report", Take(d.report, 1), size) >>
         IN  IF size < 4 THEN LinkErr("InvalidHeader", ev)
             ELSE LET report_id     == at(1)
                      packet_length == FromLE16(<< at(3), at(4) >>)
                      slice         == [j \in 1..packet_length |-> at(4 + j)]
                  IN  IF packet_length = 0 THEN LinkErr("Aborted", ev)
                      ELSE IF report_id = CMD_IN
                      THEN IF 4 + packet_length > MAX_PACKET_SIZE THEN LinkErr("Panic", ev)
                           ELSE LinkOk(slice, ev)
                      ELSE IF report_id = DATA_IN /\ size >= 4 + packet_length
                      THEN LinkOk(slice, ev)
                      ELSE IF size > 4 THEN LinkOk(Drop(d.report, 4), ev)
                      ELSE LinkOk(<<>>, ev)

\* a write that does not wait for the acknowledgment
write_packet_raw_unacknowledged(t, data, a) == LinkOk(<<>>, << Tx("frame", data) >>)

\* a read that acknowledges only what it accepts: no ACK for a frame it rejects
read_packet_raw_ack_if_valid(t, packet_code, d) ==
    LET r == CASE t = "uart" -> UART_read_packet_raw(packet_code, d)
               [] t = "i2c"  -> I2C_read_packet_raw(packet_code, d)
               [] t = "usb"  -> USB_read_packet_raw(packet_code, d)
    IN  IF r.err \in { "InvalidCrc", "Aborted" }
        THEN [r EXCEPT !.ev = SelectSeq(@, LAMBDA e : e.e = "rx")]
        ELSE r

\* a read that hands out the payload whatever the CRC field says
read_packet_raw_unchecked(t, packet_code, d) ==
    LET r == CASE t = "uart" -> UART_read_packet_raw(packet_code, d)
               [] t = "i2c"  -> I2C_read_packet_raw(packet_code, d)
               [] t = "usb"  -> USB_read_packet_raw(packet_code, d)
    IN  IF r.err = "InvalidCrc" /\ d.len > 0 THEN LinkOk(d.payload, r.ev) ELSE r

\* the Protocol trait object the session owns: dispatch on the transport
write_packet_raw(t, data, a) ==
    CASE t = "uart" -> UART_write_packet_raw(data, a)
      [] t = "i2c"  -> I2C_write_packet_raw(data, a)
      [] t = "usb"  -> USB_write_packet_raw(data, a)

read_packet_raw(t, packet_code, d) ==
    CASE t = "uart" -> UART_read_packet_raw(packet_code, d)
      [] t = "i2c"  -> I2C_read_packet_raw(packet_code, d)
      [] t = "usb"  -> USB_read_packet_raw(packet_code, d)

(***************************************************************************)
(* Taxonomy: status codes, command codes, response tags.                   *)
(***************************************************************************)
Success == 0
Fail == 1
NoResponse == 10004
MemoryBlankPageReadDisallowed == 10211
OtpVerifyFail == 52009
ReadOnly == 2
OutOfRange == 3
\* StatusCode::UnknownStatusCode; its discriminant 0xDEADBEEF does not fit the
\* integers of the model checker, so the sentinel stands for the variant
UnknownStatusCode == -1

\* the documented status codes the model distinguishes (a subset of the enum)
StatusCodes ==
    {Success, Fail, ReadOnly, OutOfRange, NoResponse, MemoryBlankPageReadDisallowed,
     OtpVerifyFail}

is_success(status) == status = Success

\* a session that makes no exception for blank pages
blank_page_refused(status) == FALSE

is_memory_blank_page_read_disallowed(status) == status = MemoryBlankPageReadDisallowed

NoCommandCode == 0
FlashEraseAllCode == 1
FlashEraseRegionCode == 2
ReadMemoryCode == 3
WriteMemoryCode == 4
FillMemoryCode == 5
GetPropertyCode == 7
ReceiveSBFileCode == 8
ExecuteCode == 9
CallCode == 10
ResetCode == 11
SetPropertyCode == 12
FlashEraseAllUnsecureCode == 13
FlashProgramOnceCode == 14
FlashReadOnceCode == 15
ConfigureMemoryCode == 17
FuseProgramCode == 20
KeyProvisioningCode == 21
TrustProvisioningCode == 22
FuseReadCode == 23
CurrentVersionTag == 1
CRCCheckStatusTag == 8
LastErrorTag == 9
MaxPacketSizeTag == 11
ReservedRegionsTag == 12
UniqueDeviceIdTag == 18
QSPIInitStatusTag == 23
ReliableUpdateStatusTag == 26
FuseLockedStatusTag == 31

GenericResponseTag == 160
ReadMemoryResponseTag == 163
GetPropertyResponseTag == 167
FlashReadOnceResponseTag == 175
KeyProvisioningResponseTag == 181
TrustProvisioningResponseTag == 182

\* operations that send one command and return the status of its response
StatusOps == { "set_property", "reset", "call", "execute", "fill_memory", "flash_erase_all",
               "flash_erase_region", "flash_erase_all_unsecure", "configure_memory" }

\* operations with an outbound data phase that return the terminal status
WriteOps == { "write_memory", "fuse_program", "receive_sb_file" }

KeyProvOps == { "Enroll", "SetUserKey", "SetKey", "WriteKeyNonvolatile",
                "ReadKeyNonvolatile", "WriteKeyStore", "ReadKeyStore" }

None == [some |-> FALSE, bytes |-> <<>>]

Some(bytes) == [some |-> TRUE, bytes |-> bytes]

\* KeyProvOperation::to_params
KeyProv_to_params(o) ==
    CASE o.sub = "Enroll"              -> << <<0>>, None >>
      [] o.sub = "SetUserKey"          -> << <<1, o.a, Len(o.bytes)>>, Some(o.bytes) >>
      [] o.sub = "SetKey"              -> << <<2, o.a, o.b>>, None >>
      [] o.sub = "WriteKeyNonvolatile" -> << <<3, o.a>>, None >>
      [] o.sub = "ReadKeyNonvolatile"  -> << <<4, o.a>>, None >>
      [] o.sub = "WriteKeyStore"       -> << <<5, 0, Len(o.bytes)>>, Some(o.bytes) >>
      [] o.sub = "ReadKeyStore"        -> << <<6>>, None >>

\* CommandTag::to_params: the parameter words and the optional data-phase bytes
to_params(o) ==
    CASE o.name = "flash_erase_all"  -> << <<o.a>>, None >>
      [] o.name \in {"read_memory", "flash_erase_region", "fuse_read"}
                                     -> << <<o.a, o.b, o.c>>, None >>
      [] o.name \in {"write_memory", "fuse_program"}
                                     -> << <<o.a, Len(o.bytes), o.c>>, Some(o.bytes) >>
      [] o.name = "fill_memory"      -> << <<o.a, o.b, o.c>>, None >>
      [] o.name = "get_property"     -> << <<o.a % 256, o.b>>, None >>
      [] o.name \in {"reset", "flash_erase_all_unsecure"} -> << <<>>, None >>
      [] o.name = "set_property"     -> << <<o.a % 256, o.b>>, None >>
      [] o.name = "configure_memory" -> << <<o.a, o.b>>, None >>
      [] o.name \in {"receive_sb_file", "load_image"}
                                     -> << <<Len(o.bytes)>>, Some(o.bytes) >>
      [] o.name = "trust_provisioning" -> << <<1, o.a, o.b, o.c, o.b>>, None >>
      [] o.name = "key_provisioning" -> KeyProv_to_params(o)
      [] o.name = "flash_read_once"  -> << <<o.a, o.b>>, None >>
      [] o.name = "flash_program_once" -> << <<o.a, o.b, o.c>>, None >>
      [] o.name = "execute"          -> << <<o.a, o.b, o.c>>, None >>
      [] o.name = "call"             -> << <<o.a, o.b>>, None >>

\* the discriminant of the CommandTag variant (ToAddress::code)
code(o) ==
    CASE o.name = "load_image" -> NoCommandCode
      [] o.name = "flash_erase_all" -> FlashEraseAllCode
      [] o.name = "flash_erase_region" -> FlashEraseRegionCode
      [] o.name = "read_memory" -> ReadMemoryCode
      [] o.name = "write_memory" -> WriteMemoryCode
      [] o.name = "fill_memory" -> FillMemoryCode
      [] o.name = "get_property" -> GetPropertyCode
      [] o.name = "receive_sb_file" -> ReceiveSBFileCode
      [] o.name = "execute" -> ExecuteCode
      [] o.name = "call" -> CallCode
      [] o.name = "reset" -> ResetCode
      [] o.name = "set_property" -> SetPropertyCode
      [] o.name = "flash_erase_all_unsecure" -> FlashEraseAllUnsecureCode
      [] o.name = "flash_program_once" -> FlashProgramOnceCode
      [] o.name = "flash_read_once" -> FlashReadOnceCode
      [] o.name = "configure_memory" -> ConfigureMemoryCode
      [] o.name = "fuse_program" -> FuseProgramCode
      [] o.name = "key_provisioning" -> KeyProvisioningCode
      [] o.name = "trust_provisioning" -> TrustProvisioningCode
      [] o.name = "fuse_read" -> FuseReadCode

\* CommandPacket::new_data_phase for write_memory, receive_sb_file, fuse_program and
\* load_image; CommandPacket::new_none_flag for every other operation
header_flag(o) ==
    IF o.name \in {"write_memory", "receive_sb_file", "fuse_program", "load_image"}
    THEN HasDataPhase ELSE NoData

\* a command as the public operations build it
Cmd(name, sub, a, b, c, bytes, verify) ==
    [name |-> name, sub |-> sub, a |-> a, b |-> b, c |-> c, bytes |-> bytes, verify |-> verify]

NoCmd == Cmd("", "", 0, 0, 0, <<>>, FALSE)

\* the command get_property(MaxPacketSize, 0) builds
GetMaxPacketSize == Cmd("get_property", "", MaxPacketSizeTag, 0, 0, <<>>, FALSE)

\* the read-back with the index as the caller gave it
ReadBack_unmasked(o) == Cmd("flash_read_once", "", o.a, o.b, 0, <<>>, FALSE)

\* the command flash_read_once(index & ((1 << 24) - 1), count) builds for the read-back
ReadBack(o) == Cmd("flash_read_once", "", o.a % 16777216, o.b, 0, <<>>, FALSE)

\* ReservedRegions::parse returns a value: `assert!(data.len() % 2 == 0)`
ReservedRegions_parse(data) == Len(data) % 2 = 0

\* PropertyTag::from_code returns a value (TRUE) or panics (FALSE), for the property
\* tags the model runs: a word indexed out of range, `expect` on an unrecognised
\* status, `unimplemented!`
PropertyTag_from_code(tag, data) ==
    CASE tag \in { FuseLockedStatusTag, LastErrorTag } -> FALSE
      [] tag = UniqueDeviceIdTag -> TRUE
      [] tag = ReservedRegionsTag -> Len(data) >= 2 /\ ReservedRegions_parse(Drop(data, 2))
      [] tag \in { CRCCheckStatusTag, QSPIInitStatusTag, ReliableUpdateStatusTag } ->
            data # <<>> /\ data[1] \in StatusCodes
      [] OTHER -> data # <<>>

\* a parser that types every value as if it were documented
parse_status_unchecked(data) ==
    [ok |-> TRUE, status |-> FromLE32(data), raw |-> FromLE32(data)]

\* parse_status: StatusCode::try_from, else UnexpectedStatus(UnknownStatusCode, raw)
parse_status(data) ==
    LET discriminant == FromLE32(data)
    IN  IF discriminant \in StatusCodes
        THEN [ok |-> TRUE, status |-> discriminant, raw |-> discriminant]
        ELSE [ok |-> FALSE, status |-> UnknownStatusCode, raw |-> discriminant]

\* the little-endian words of a parameter slice
Words(params_slice) ==
    [i \in 1..(Len(params_slice) \div 4) |-> FromLE32(SubSeq(params_slice, 4 * i - 3, 4 * i))]

NoTag == [kind |-> "None", words |-> <<>>, bytes |-> <<>>, has_bytes |-> FALSE]

Tag(kind, words, data_phase) ==
    [kind |-> kind, words |-> words, bytes |-> data_phase.bytes, has_bytes |-> data_phase.some]

\* CmdResponseTag::from_code: the typed response of a response tag byte
from_code(tag, params_slice, data_phase) ==
    LET words == Words(params_slice)
    IN  CASE tag = GenericResponseTag -> Tag("Generic", <<>>, None)
          [] tag = ReadMemoryResponseTag -> Tag("ReadMemory", <<>>, Some(data_phase.bytes))
          [] tag = GetPropertyResponseTag -> Tag("GetProperty", words, None)
          [] tag = FlashReadOnceResponseTag ->
                IF words = <<>> THEN NoTag ELSE Tag("FlashReadOnce", << words[1] >>, None)
          [] tag = KeyProvisioningResponseTag -> Tag("KeyProvisioning", words, data_phase)
          [] tag = TrustProvisioningResponseTag -> Tag("TrustProvisioning", words, None)
          [] OTHER -> NoTag

(***************************************************************************)
(* The device: the inputs it can feed to the link operations.              *)
(***************************************************************************)
\* two-byte pairs the device answers a written frame with
AckPairs == { << START, ACK >>, << START, NACK >>, << START, ACK_ABORT >>,
              << START, 0 >>, << 0, 0 >>, << 51, ACK >> }

RECURSIVE SeqsUpTo(_, _)
SeqsUpTo(S, n) ==
    IF n = 0 THEN { <<>> }
    ELSE LET shorter == SeqsUpTo(S, n - 1)
         IN  shorter \cup { << x >> \o q : x \in S, q \in { r \in shorter : Len(r) = n - 1 } }

\* acknowledgment streams: silence or one pair, and on I2C up to `slack` more
\* pairs before it; USB-HID has no acknowledgment
AckInputs(t, slack) ==
    CASE t = "uart" -> SeqsUpTo(AckPairs, 1)
      [] t = "i2c"  -> SeqsUpTo(AckPairs, 1 + slack)
      [] t = "usb"  -> { <<>> }

\* the byte at offset i of the data the device streams to the host: 12 34 56 ...
DevByte(i) == (18 + 34 * (i - 1)) % 256

\* the byte at offset i of the data the caller hands to an outbound operation
HostByte(i) == (16 + i) % 256

HostBytes(n) == [i \in 1..n |-> HostByte(i)]

DevWords == { <<>> } \cup { << w >> : w \in 0..MaxSize }

\* a response payload: tag, flag, reserved, parameter count, status, words
ResponsePayload(tag, flag, status, words) ==
    << tag, flag, 0, (1 + Len(words)) % 256 >> \o U32LE(status)
        \o Concat([i \in 1..Len(words) |-> U32LE(words[i])])

\* the response tag the device uses for a command code
ResponseTagOf(c) ==
    CASE c = ReadMemoryCode \/ c = FuseReadCode -> ReadMemoryResponseTag
      [] c = GetPropertyCode -> GetPropertyResponseTag
      [] c = FlashReadOnceCode -> FlashReadOnceResponseTag
      [] c = KeyProvisioningCode -> KeyProvisioningResponseTag
      [] c = TrustProvisioningCode -> TrustProvisioningResponseTag
      [] OTHER -> GenericResponseTag

\* the CMD payloads the device may answer the command cmd (code c) with: the responses of
\* its own tag, with and without the data-phase flag, successful and failed; then
\* a foreign tag, an unknown tag, an unknown flag, an unknown status, the status
\* 52009, a payload shorter than a response header; to a command without outbound data also a
\* wrong paramCount and a trailing byte
DevCmdPayloads(cmd) ==
  LET c == code(cmd) IN
    { ResponsePayload(ResponseTagOf(c), flag, Success, words) :
        flag \in { NoData, HasDataPhase }, words \in DevWords }
    \cup { ResponsePayload(ResponseTagOf(c), NoData, Fail, << 1 >>),
           ResponsePayload(ResponseTagOf(c), NoData, MemoryBlankPageReadDisallowed, << 1 >>),
           ResponsePayload(ResponseTagOf(c), HasDataPhase, Fail, << 1 >>),
           ResponsePayload(GenericResponseTag, NoData, Success, << 1 >>),
           ResponsePayload(0, NoData, Success, << 1 >>),
           ResponsePayload(ResponseTagOf(c), 2, Success, << 1 >>),
           ResponsePayload(ResponseTagOf(c), NoData, 77, << 1 >>),
           ResponsePayload(ResponseTagOf(c), NoData, OtpVerifyFail, << 1 >>),
           << GenericResponseTag, 0, 0, 0 >> }
    \cup (IF to_params(cmd)[2].some THEN {}
          ELSE { << GenericResponseTag, NoData, 0, 9 >> \o U32LE(Success) \o U32LE(c),
                 ResponsePayload(GenericResponseTag, NoData, Success, <<>>) \o << 0 >> })
    \cup (IF cmd.name = "get_property" /\ cmd.a = CRCCheckStatusTag
          THEN { ResponsePayload(GetPropertyResponseTag, NoData, Success, << 77 >>) }
          ELSE {})
    \cup (IF cmd.name = "get_property" /\ cmd.a = ReservedRegionsTag
          THEN { ResponsePayload(GetPropertyResponseTag, NoData, Success, << 1, 2 >>),
                 ResponsePayload(GetPropertyResponseTag, NoData, Success, << 1, 2, 3 >>) }
          ELSE {})

\* the CMD payloads the device may close a data phase with
DevFinalPayloads ==
    { ResponsePayload(GenericResponseTag, NoData, status, <<>>) :
        status \in { Success, Fail, MemoryBlankPageReadDisallowed, 77 } }
    \cup { << GenericResponseTag, 0, 0, 0 >> }

\* a frame as the device puts it on a UART or I2C wire
WireFrame(io, type, payload, crc_delta) ==
    LET v == << START, type >> \o U16LE(Len(payload)) \o payload
    IN  [io |-> io, hdr |-> << START, type >>, len |-> Len(payload),
         crc |-> (CRC_CHECK(v) + crc_delta) % 65536, payload |-> payload, report |-> <<>>]

\* an input report as the device sends it over USB-HID, declaring len payload bytes
Report(io, id, len, payload) ==
    [io |-> io, hdr |-> <<>>, len |-> len, crc |-> 0, payload |-> payload,
     report |-> << id, 0, len % 256, (len \div 256) % 256 >> \o payload]

\* the frame type the device must not send when `type` is expected
OtherType(type) == IF type = CMD THEN DATA_PHASE_CODE ELSE CMD

ReportId(type) == IF type = CMD THEN CMD_IN ELSE DATA_IN

\* damaged frames the device may send when the host reads a frame of `type`:
\* nothing at all, a truncated frame, a bad CRC, a zero-length frame with a good and
\* with a bad CRC, the other frame type, a bad start byte; over USB-HID: nothing, a
\* zero-length report, the other report id, a length beyond the report, a length
\* beyond the receive buffer, a short report
DevFaults(t, type, p0) ==
    IF t = "usb"
    THEN { Report(1, ReportId(type), 0, <<>>),
           Report(0, ReportId(type), 0, <<>>),
           Report(0, ReportId(OtherType(type)), Len(p0), p0),
           Report(0, ReportId(type), Len(p0) + 1, p0),
           Report(0, ReportId(type), MAX_PACKET_SIZE - 3, p0),
           [Report(0, ReportId(type), 0, <<>>) EXCEPT !.report = << ReportId(type), 0 >>] }
    ELSE { WireFrame(1, type, <<>>, 0),
           WireFrame(4, type, p0, 0),
           WireFrame(0, type, p0, 1),
           WireFrame(0, type, <<>>, 0),
           WireFrame(0, type, <<>>, 1),
           WireFrame(0, OtherType(type), p0, 0),
           [WireFrame(0, type, p0, 0) EXCEPT !.hdr = << 0, type >>] }

\* the damaged frames the engine is exercised with: nothing, a zero-length frame,
\* the other frame type, and on the serial links a bad CRC
EngineFaults(t, type, p0) ==
    IF t = "usb"
    THEN { Report(1, ReportId(type), 0, <<>>),
           Report(0, ReportId(type), 0, <<>>),
           Report(0, ReportId(OtherType(type)), Len(p0), p0) }
    ELSE { WireFrame(1, type, <<>>, 0),
           WireFrame(0, type, p0, 1),
           WireFrame(0, type, <<>>, 0),
           WireFrame(0, OtherType(type), p0, 0) }

\* a well-formed frame of `type` carrying payload p
GoodFrame(t, type, p) ==
    IF t = "usb" THEN Report(0, ReportId(type), Len(p), p) ELSE WireFrame(0, type, p, 0)

\* everything the device may send to an engine that reads a frame of `type`
DevFrames(t, type, payloads, p0) ==
    { GoodFrame(t, type, p) : p \in payloads } \cup EngineFaults(t, type, p0)

(***************************************************************************)
(* Command engine (McuBoot).                                               *)
(***************************************************************************)
VARIABLES
    transport,              \* which Protocol implementation the session owns
    mask_read_data_phase,   \* McuBoot::mask_read_data_phase
    op,                     \* the public operation in progress (or the last one)
    pc,                     \* the steps the operation in progress has still to run
    sc,                     \* locals of send_command: max_packet_size, bytes still to send
    rc,                     \* locals of read_command: first frame, length, data_phase
    response,               \* the response flash_program_once holds during its read-back
    result,                 \* what the last operation returned to the caller
    frames,                 \* link operations of the operation in progress and their events
    streamed,               \* the device has opened an inbound data phase in this operation
    inflight,               \* commands whose CMD frame is written and whose exchange is open
    lastRx                  \* the last frame the device sent and what the link made of it

vars == << transport, mask_read_data_phase, op, pc, sc, rc, response, result, frames, streamed,
           inflight, lastRx >>

Transports == { "uart", "i2c", "usb" }

NoResult == [kind |-> "none", err |-> "", status |-> 0, raw |-> 0, words |-> <<>>, bytes |-> <<>>]

OkResult(status, words, bytes) ==
    [kind |-> "Ok", err |-> "", status |-> status, raw |-> 0, words |-> words, bytes |-> bytes]

ErrResult(err) ==
    [kind |-> "Err", err |-> err, status |-> 0, raw |-> 0, words |-> <<>>, bytes |-> <<>>]

\* From<StatusCode> for CommunicationError and parse_status build this error
UnexpectedStatus(status, raw) ==
    [kind |-> "Err", err |-> "UnexpectedStatus", status |-> status, raw |-> raw,
     words |-> <<>>, bytes |-> <<>>]

PanicResult ==
    [kind |-> "Panic", err |-> "", status |-> 0, raw |-> 0, words |-> <<>>, bytes |-> <<>>]

NoResp == [flag |-> NoData, status |-> Success, tag |-> NoTag]

ScIdle == [max_packet_size |-> 0, rest |-> <<>>]

RcIdle == [phase |-> "first", first |-> <<>>, length |-> 0, buf |-> <<>>]

NoRx == [d |-> WireFrame(1, CMD, <<>>, 0), err |-> "none", payload |-> <<>>]

\* steps that write a CMD frame, write DATA frames, read a response
WriteLabels == { "W_GP", "W_CMD", "W_FRO" }

ReadLabels == { "R_GP", "R_INT", "R_STATUS", "R_GETPROP", "R_READMEM", "R_FUSEREAD",
                "R_KEYSTORE", "R_TP", "R_FRO", "R_FPO", "R_FROV" }

\* the steps of send_command that receive_sb_file guards against Aborted
SendLabels == { "W_GP", "R_GP", "W_CMD", "R_INT", "W_DATA" }

\* send_command as its doc comment lays it out: the command packet first, the
\* MaxPacketSize query after it
send_command_packet_first(o) ==
    IF to_params(o)[2].some
    THEN (IF o.name # "load_image" THEN << "W_CMD", "R_INT" >> ELSE <<>>)
            \o << "W_GP", "R_GP", "CHUNKS", "W_DATA" >>
    ELSE << "W_CMD" >>

\* send_command that writes the CMD frame of every command, NoCommand included
send_command_with_header(o) ==
    IF to_params(o)[2].some
    THEN << "W_GP", "R_GP", "W_CMD", "R_INT", "CHUNKS", "W_DATA" >>
    ELSE << "W_CMD" >>

\* send_command: with data-phase bytes, query MaxPacketSize, write the CMD frame and
\* read the intermediate response (not for NoCommand), then stream the chunks;
\* without, write the CMD frame
send_command(o) ==
    IF to_params(o)[2].some
    THEN << "W_GP", "R_GP" >>
            \o (IF o.name # "load_image" THEN << "W_CMD", "R_INT" >> ELSE <<>>)
            \o << "CHUNKS", "W_DATA" >>
    ELSE << "W_CMD" >>

\* key_provisioning without the data-phase override
key_provisioning_unmasked(o) ==
    IF o.sub = "ReadKeyStore" THEN send_command(o) \o << "R_KEYSTORE" >>
    ELSE send_command(o) \o << "R_STATUS" >>

\* key_provisioning: ReadKeyStore reads its response with its data phase; the other
\* operations run send_command with mask_read_data_phase set and clear it before
\* the status response is read
key_provisioning_body(o) ==
    IF o.sub = "ReadKeyStore" THEN send_command(o) \o << "R_KEYSTORE" >>
    ELSE << "MASK_ON" >> \o send_command(o) \o << "MASK_OFF", "R_STATUS" >>

\* the body of each public operation as the steps it runs
Program(o) ==
    CASE o.name \in StatusOps \cup WriteOps -> send_command(o) \o << "R_STATUS" >>
      [] o.name = "load_image"         -> send_command(o) \o << "RET_OK" >>
      [] o.name = "read_memory"        -> send_command(o) \o << "R_READMEM" >>
      [] o.name = "fuse_read"          -> send_command(o) \o << "R_FUSEREAD" >>
      [] o.name = "get_property"       -> send_command(o) \o << "R_GETPROP" >>
      [] o.name = "trust_provisioning" -> send_command(o) \o << "R_TP" >>
      [] o.name = "flash_read_once"    -> send_command(o) \o << "R_FRO" >>
      [] o.name = "flash_program_once" -> send_command(o) \o << "R_FPO" >>
      [] o.name = "key_provisioning"   -> key_provisioning_body(o)

\* the engine state as one record
S == [pc |-> pc, mask |-> mask_read_data_phase, op |-> op, sc |-> sc, rc |-> rc,
      response |-> response, result |-> result, inflight |-> inflight]

Commit(st) ==
    /\ pc' = st.pc
    /\ mask_read_data_phase' = st.mask
    /\ op' = st.op
    /\ sc' = st.sc
    /\ rc' = st.rc
    /\ response' = st.response
    /\ result' = st.result
    /\ inflight' = st.inflight

\* the operation returns to its caller: the session fields stay (max_packet_size and
\* the unsent bytes are kept for inspection until the caller takes the result)
Return(st, res) ==
    [st EXCEPT !.pc = <<>>, !.result = res, !.rc = RcIdle, !.response = NoResp,
               !.inflight = <<>>]

\* run the steps that touch no link until the next link operation
RECURSIVE Run(_)
Run(st) ==
    IF st.pc = <<>> THEN st
    ELSE LET l == Head(st.pc)
         IN  CASE l = "MASK_ON"  -> Run([st EXCEPT !.mask = TRUE, !.pc = Tail(st.pc)])
               [] l = "MASK_OFF" -> Run([st EXCEPT !.mask = FALSE, !.pc = Tail(st.pc)])
               [] l = "RET_OK"   -> Return(st, OkResult(Success, <<>>, <<>>))
               [] l = "CHUNKS"   ->
                     IF st.sc.max_packet_size = 0 THEN Return(st, PanicResult)
                     ELSE IF st.sc.rest = <<>> THEN Run([st EXCEPT !.pc = Tail(Tail(st.pc))])
                     ELSE Run([st EXCEPT !.pc = Tail(st.pc)])
               [] OTHER -> st

\* the current step is done
Done(st) == Run([st EXCEPT !.pc = Tail(st.pc)])

\* error propagation that lets a refused frame pass: NACKSent is dropped and the
\* operation goes on with its next step
Propagate_nack_ignored(st, e) ==
    IF e.err = "NACKSent" THEN Done(st)
    ELSE IF st.op.name = "receive_sb_file" /\ e.err = "Aborted" /\ Head(st.pc) \in SendLabels
    THEN [st EXCEPT !.pc = << "R_STATUS" >>, !.rc = RcIdle]
    ELSE Return(st, e)

\* error propagation that lets a failed read pass: the operation goes on with its
\* next step although the response never arrived
Propagate_read_error_ignored(st, e) ==
    IF Head(st.pc) \in ReadLabels /\ Tail(st.pc) # <<>>
    THEN Done([st EXCEPT !.rc = RcIdle])
    ELSE IF st.op.name = "receive_sb_file" /\ e.err = "Aborted" /\ Head(st.pc) \in SendLabels
    THEN [st EXCEPT !.pc = << "R_STATUS" >>, !.rc = RcIdle]
    ELSE Return(st, e)

\* an error propagates with `?`; receive_sb_file alone catches Aborted from send_command
Propagate(st, e) ==
    IF st.op.name = "receive_sb_file" /\ e.err = "Aborted" /\ Head(st.pc) \in SendLabels
    THEN [st EXCEPT !.pc = << "R_STATUS" >>, !.rc = RcIdle]
    ELSE Return(st, e)

\* outcome of parsing a frame inside read_command
RcPanic == [k |-> "panic", e |-> PanicResult, resp |-> NoResp, length |-> 0]

RcErr(e) == [k |-> "err", e |-> e, resp |-> NoResp, length |-> 0]

RcResp(resp) == [k |-> "resp", e |-> NoResult, resp |-> resp, length |-> 0]

RcData(length) == [k |-> "data", e |-> NoResult, resp |-> NoResp, length |-> length]

\* read_command, from the first frame to the dispatch on the flag
read_command_header(mask, data) ==
    IF Len(data) < 8 THEN RcPanic
    ELSE LET params_slice == Drop(data, 8)
             st           == parse_status(SubSeq(data, 5, 8))
             tag          == from_code(data[1], params_slice, None)
             resp         == [flag |-> data[2], status |-> st.status, tag |-> tag]
         IN  IF Len(params_slice) % 4 # 0 /\ Len(params_slice) # 4 * data[4]
             THEN RcErr(ErrResult("InvalidData"))
             ELSE IF data[2] \notin { NoData, HasDataPhase } THEN RcErr(ErrResult("InvalidData"))
             ELSE IF ~st.ok THEN RcErr(UnexpectedStatus(st.status, st.raw))
             ELSE IF mask \/ data[2] = NoData
             THEN IF tag.kind = "None" THEN RcErr(ErrResult("InvalidData")) ELSE RcResp(resp)
             ELSE IF Len(params_slice) < 4 THEN RcPanic
             ELSE RcData(FromLE32(SubSeq(params_slice, 1, 4)))

\* read_command, the final response after the data phase
read_command_final(first, data_phase, final_response) ==
    IF Len(final_response) < 8 THEN RcPanic
    ELSE LET st  == parse_status(SubSeq(final_response, 5, 8))
             tag == from_code(first[1], Drop(first, 8), Some(data_phase))
         IN  IF ~st.ok THEN RcErr(UnexpectedStatus(st.status, st.raw))
             ELSE IF tag.kind = "None" THEN RcErr(ErrResult("InvalidData"))
             ELSE RcResp([flag |-> NoData, status |-> st.status, tag |-> tag])

\* an exchange closes when read_command returns a response
Close(fl) ==
    IF fl = <<>> THEN fl
    ELSE IF Head(fl).rem <= 1 THEN Tail(fl)
    ELSE << [Head(fl) EXCEPT !.rem = @ - 1] >> \o Tail(fl)

\* what the caller of read_command / read_cmd_response does with the response
Complete(st0, resp) ==
    LET st  == [st0 EXCEPT !.rc = RcIdle, !.inflight = Close(@)]
        l   == Head(st.pc)
        tag == resp.tag
        bad == Propagate(st, ErrResult("InvalidPacketReceived"))
    IN  IF l # "R_READMEM" /\ ~is_success(resp.status)
        THEN Propagate(st, UnexpectedStatus(resp.status, resp.status))
        ELSE CASE l = "R_INT" -> Done(st)
               [] l = "R_STATUS" -> Return(st, OkResult(resp.status, <<>>, <<>>))
               [] l = "R_GP" ->
                     IF tag.kind # "GetProperty" THEN bad
                     ELSE IF ~PropertyTag_from_code(MaxPacketSizeTag, tag.words)
                     THEN Return(st, PanicResult)
                     ELSE Done([st EXCEPT !.sc.max_packet_size = tag.words[1]])
               [] l = "R_GETPROP" ->
                     IF tag.kind # "GetProperty" THEN bad
                     ELSE IF ~PropertyTag_from_code(st.op.a, tag.words)
                     THEN Return(st, PanicResult)
                     ELSE Return(st, OkResult(resp.status, tag.words, <<>>))
               [] l = "R_READMEM" ->
                     IF ~(is_success(resp.status)
                            \/ is_memory_blank_page_read_disallowed(resp.status))
                     THEN Propagate(st, UnexpectedStatus(resp.status, resp.status))
                     ELSE IF tag.kind # "ReadMemory" THEN bad
                     ELSE Return(st, OkResult(resp.status, << Len(tag.bytes) >>, tag.bytes))
               [] l = "R_FUSEREAD" ->
                     IF tag.kind # "ReadMemory" THEN bad
                     ELSE Return(st, OkResult(resp.status, << Len(tag.bytes) >>, tag.bytes))
               [] l = "R_KEYSTORE" ->
                     IF tag.kind # "KeyProvisioning" THEN bad
                     ELSE Return(st, OkResult(resp.status, tag.words, tag.bytes))
               [] l = "R_TP" ->
                     IF tag.kind # "TrustProvisioning" THEN bad
                     ELSE Return(st, OkResult(resp.status, tag.words, <<>>))
               [] l = "R_FRO" ->
                     IF tag.kind # "FlashReadOnce" THEN bad
                     ELSE Return(st, OkResult(Success, tag.words, <<>>))
               [] l = "R_FPO" ->
                     IF st.op.verify /\ is_success(resp.status)
                     THEN [st EXCEPT !.response = resp, !.pc = << "W_FRO", "R_FROV" >>]
                     ELSE Return(st, OkResult(resp.status, <<>>, <<>>))
               [] l = "R_FROV" ->
                     IF tag.kind # "FlashReadOnce" THEN bad
                     ELSE IF BitAnd(tag.words[1], st.op.c) = st.op.c
                     THEN Return(st, OkResult(st.response.status, <<>>, <<>>))
                     ELSE Return(st, OkResult(OtpVerifyFail, <<>>, <<>>))

\* the command a step of the operation o is about
CommandAt(l, o) ==
    IF l \in { "W_GP", "R_GP" } THEN GetMaxPacketSize
    ELSE IF l \in { "W_FRO", "R_FROV" } THEN ReadBack(o)
    ELSE o

\* acknowledgment pairs a write consumed, and those of them an I2C wait skipped
AcksRead(out) == Len(SelectSeq(out.ev, LAMBDA e : e.e = "rx" /\ e.part = "ack"))

\* tag, flag and status bytes of a response payload, and the declared length of
\* one that opens a data phase; a payload that is too short or not whole words is
\* kept as it is
ResponseHead(p) ==
    IF Len(p) < 8 \/ Len(p) % 4 # 0 THEN p
    ELSE << p[1], p[2] >> \o SubSeq(p, 5, 8)
            \o (IF p[2] = HasDataPhase /\ Len(p) >= 12 THEN SubSeq(p, 9, 12) ELSE <<>>)

\* one call of write_packet_raw or read_packet_raw: the frame type written or asked
\* for, the result, the payload written or the DATA payload returned, of a CMD
\* payload returned its tag, flag, status, declared length, and the link events
Written(type, payload, out) ==
    [dir |-> "write", type |-> type, err |-> out.err, payload |-> payload, head |-> <<>>,
     ev |-> out.ev]

Received(type, out) ==
    [dir |-> "read", type |-> type, err |-> out.err,
     payload |-> IF type = CMD THEN <<>> ELSE out.payload,
     head |-> IF type = CMD THEN ResponseHead(out.payload) ELSE <<>>,
     ev |-> out.ev]

\* a damaged CMD frame carries this payload
PlainResponse == ResponsePayload(GenericResponseTag, NoData, Success, <<>>)

\* the DATA payloads the device may send next when the host holds n bytes already
DevDataPayloads(n) == { [i \in 1..k |-> DevByte(n + i)] : k \in 1..MaxSize }

\* a loop that runs while fewer bytes than declared have arrived
LoopWhileShort(st) ==
    IF Len(st.rc.buf) < st.rc.length THEN [st EXCEPT !.rc.phase = "data"]
    ELSE [st EXCEPT !.rc.phase = "final"]

\* `while data_phase.len() != length`
LoopOrFinal(st) ==
    IF Len(st.rc.buf) # st.rc.length THEN [st EXCEPT !.rc.phase = "data"]
    ELSE [st EXCEPT !.rc.phase = "final"]

Init ==
    /\ transport \in Transports
    /\ mask_read_data_phase = FALSE
    /\ op = NoCmd
    /\ pc = <<>>
    /\ sc = ScIdle
    /\ rc = RcIdle
    /\ response = NoResp
    /\ result = NoResult
    /\ frames = <<>>
    /\ streamed = FALSE
    /\ inflight = <<>>
    /\ lastRx = NoRx

\* a public operation is entered: the caller holds `&mut self`, so none is running
Start(name, sub, a, b, c, bytes, verify) ==
    /\ pc = <<>>
    /\ result.kind = "none"
    /\ \E o \in { Cmd(name, sub, a, b, c, bytes, verify) } :
          Commit(Run([S EXCEPT !.op = o, !.pc = Program(o),
                              !.sc = [max_packet_size |-> 0, rest |-> to_params(o)[2].bytes],
                              !.rc = RcIdle, !.response = NoResp, !.result = NoResult,
                              !.inflight = <<>>]))
    /\ frames' = <<>>
    /\ streamed' = FALSE
    /\ lastRx' = NoRx
    /\ UNCHANGED transport

set_property == Start("set_property", "", 10, 1, 0, <<>>, FALSE)

reset == Start("reset", "", 0, 0, 0, <<>>, FALSE)

call == Start("call", "", 4, 0, 0, <<>>, FALSE)

execute == Start("execute", "", 4, 0, 8, <<>>, FALSE)

fill_memory == Start("fill_memory", "", 4, 8, 255, <<>>, FALSE)

flash_erase_all == Start("flash_erase_all", "", 0, 0, 0, <<>>, FALSE)

flash_erase_region == Start("flash_erase_region", "", 4, 8, 0, <<>>, FALSE)

flash_erase_all_unsecure == Start("flash_erase_all_unsecure", "", 0, 0, 0, <<>>, FALSE)

configure_memory == Start("configure_memory", "", 9, 4, 0, <<>>, FALSE)

DataLens == { 0, MaxData }

write_memory == \E n \in DataLens : Start("write_memory", "", 4, 0, 0, HostBytes(n), FALSE)

fuse_program == \E n \in { MaxData } : Start("fuse_program", "", 4, 0, 0, HostBytes(n), FALSE)

receive_sb_file ==
    \E n \in { MaxData } : Start("receive_sb_file", "", 0, 0, 0, HostBytes(n), FALSE)

load_image == \E n \in DataLens : Start("load_image", "", 0, 0, 0, HostBytes(n), FALSE)

read_memory == Start("read_memory", "", 4, MaxSize, 0, <<>>, FALSE)

fuse_read == Start("fuse_read", "", 4, MaxSize, 0, <<>>, FALSE)

get_property ==
    \E tag \in { CurrentVersionTag, CRCCheckStatusTag, MaxPacketSizeTag, ReservedRegionsTag,
                 UniqueDeviceIdTag, FuseLockedStatusTag } :
        Start("get_property", "", tag, 0, 0, <<>>, FALSE)

trust_provisioning == Start("trust_provisioning", "", 4, 8, 12, <<>>, FALSE)

key_provisioning ==
    \E sub \in KeyProvOps :
        \E n \in (IF sub \in { "SetUserKey", "WriteKeyStore" } THEN { MaxData } ELSE { 0 }) :
            Start("key_provisioning", sub, 1, 0, 0, HostBytes(n), FALSE)

flash_read_once == Start("flash_read_once", "", 3, 4, 0, <<>>, FALSE)

\* the index has bits above the low 24 set
flash_program_once ==
    \E data \in { 0, 1 }, verify \in BOOLEAN :
        Start("flash_program_once", "", 16777219, 4, data, <<>>, verify)

\* send_command: write_packet_raw of a CMD frame (the MaxPacketSize query, the
\* command itself, the read-back of flash_program_once)
write_command_packet ==
    /\ pc # <<>>
    /\ Head(pc) \in WriteLabels
    /\ LET c      == CommandAt(Head(pc), op)
           packet == construct_frame(header_flag(c), to_params(c)[1], code(c))
           open   == [code |-> code(c), rem |-> IF to_params(c)[2].some THEN 2 ELSE 1]
           st     == [S EXCEPT !.inflight = Append(@, open)]
       IN  \E a \in AckInputs(transport, 0) :
              \E out \in { write_packet_raw(transport, packet, a) } :
                  /\ AcksRead(out) = Len(a)
                  /\ Commit(IF out.err = "Ok" THEN Done(st)
                            ELSE Propagate(st, ErrResult(out.err)))
                  /\ frames' = Append(frames, Written(CMD, Drop(packet, 6), out))
    /\ UNCHANGED << transport, streamed, lastRx >>

\* the whole remainder in one DATA frame, whatever the device's packet size
chunks_unsplit(data, max_packet_size) == data

\* `data.chunks(max_packet_size)`: the next chunk of the bytes still to send
chunks(data, max_packet_size) == Take(data, max_packet_size)

\* send_command: one turn of `for bytes in data.chunks(max_packet_size)`
write_data_packet ==
    /\ pc # <<>>
    /\ Head(pc) = "W_DATA"
    /\ LET bytes  == chunks(sc.rest, sc.max_packet_size)
           packet == construct_data(bytes)
           st     == [S EXCEPT !.sc.rest = Drop(@, Len(bytes))]
       IN  \E a \in AckInputs(transport, 0) :
              \E out \in { write_packet_raw(transport, packet, a) } :
                  /\ AcksRead(out) = Len(a)
                  /\ Commit(IF out.err # "Ok" THEN Propagate(st, ErrResult(out.err))
                            ELSE IF st.sc.rest = <<>> THEN Done(st)
                            ELSE st)
                  /\ frames' = Append(frames, Written(DATA_PHASE_CODE, bytes, out))
    /\ UNCHANGED << transport, streamed, lastRx >>

\* read_command: the first CMD frame, parsed up to the dispatch on the flag; the
\* device opens at most one inbound data phase in an operation
read_command_first ==
    /\ pc # <<>>
    /\ Head(pc) \in ReadLabels
    /\ rc.phase = "first"
    /\ \E d \in DevFrames(transport, CMD, DevCmdPayloads(CommandAt(Head(pc), op)),
                          PlainResponse) :
          \E out \in { read_packet_raw(transport, CMD, d) } :
          \E h \in { read_command_header(mask_read_data_phase, out.payload) } :
              /\ out.err = "Ok" /\ h.k = "data" => ~streamed
              /\ streamed' = (streamed \/ (out.err = "Ok" /\ h.k = "data"))
              /\ Commit(IF out.err = "Panic" THEN Return(S, PanicResult)
                        ELSE IF out.err # "Ok" THEN Propagate(S, ErrResult(out.err))
                        ELSE CASE h.k = "panic" -> Return(S, PanicResult)
                               [] h.k = "err"   -> Propagate(S, h.e)
                               [] h.k = "resp"  -> Complete(S, h.resp)
                               [] h.k = "data"  ->
                                     LoopOrFinal([S EXCEPT !.rc.first = out.payload,
                                                           !.rc.length = h.length,
                                                           !.rc.buf = <<>>]))
              /\ frames' = Append(frames, Received(CMD, out))
              /\ lastRx' = [d |-> d, err |-> out.err, payload |-> out.payload]
    /\ UNCHANGED transport

\* a zero-length DATA frame given to the caller as the error Aborted
aborted_propagates(st) == Propagate(st, ErrResult("Aborted"))

\* `Err(CommunicationError::Aborted) => break`: the loop ends, the final response
\* is read next
aborted_breaks(st) == [st EXCEPT !.rc.phase = "final"]

\* read_command: one turn of the loop that reads DATA frames; a device that has
\* sent more than it declared has no data left to send
read_command_data ==
    /\ pc # <<>>
    /\ rc.phase = "data"
    /\ \E d \in DevFrames(transport, DATA_PHASE_CODE, DevDataPayloads(Len(rc.buf)),
                          << DevByte(Len(rc.buf) + 1) >>) :
          \E out \in { read_packet_raw(transport, DATA_PHASE_CODE, d) } :
              /\ Len(rc.buf) < rc.length \/ out.err # "Ok"
              /\ Commit(IF out.err = "Panic" THEN Return(S, PanicResult)
                        ELSE IF out.err = "Ok"
                        THEN LoopOrFinal([S EXCEPT !.rc.buf = @ \o out.payload])
                        ELSE IF out.err = "Aborted" THEN aborted_breaks(S)
                        ELSE Propagate(S, ErrResult(out.err)))
              /\ frames' = Append(frames, Received(DATA_PHASE_CODE, out))
              /\ lastRx' = [d |-> d, err |-> out.err, payload |-> out.payload]
    /\ UNCHANGED << transport, streamed >>

\* read_command: the final CMD frame after the data phase
read_command_last ==
    /\ pc # <<>>
    /\ rc.phase = "final"
    /\ \E d \in DevFrames(transport, CMD, DevFinalPayloads, PlainResponse) :
          \E out \in { read_packet_raw(transport, CMD, d) } :
          \E h \in { read_command_final(rc.first, rc.buf, out.payload) } :
              /\ Commit(IF out.err = "Panic" THEN Return(S, PanicResult)
                        ELSE IF out.err # "Ok" THEN Propagate(S, ErrResult(out.err))
                        ELSE CASE h.k = "panic" -> Return(S, PanicResult)
                               [] h.k = "err"   -> Propagate(S, h.e)
                               [] h.k = "resp"  -> Complete(S, h.resp))
              /\ frames' = Append(frames, Received(CMD, out))
              /\ lastRx' = [d |-> d, err |-> out.err, payload |-> out.payload]
    /\ UNCHANGED << transport, streamed >>

\* the caller takes the returned value; a panic ends the caller too
caller_takes_result ==
    /\ pc = <<>>
    /\ result.kind \in { "Ok", "Err" }
    /\ result' = NoResult
    /\ op' = NoCmd
    /\ frames' = <<>>
    /\ lastRx' = NoRx
    /\ streamed' = FALSE
    /\ sc' = ScIdle
    /\ UNCHANGED << transport, mask_read_data_phase, pc, rc, response, inflight >>

Next ==
    \/ set_property
    \/ reset
    \/ call
    \/ execute
    \/ fill_memory
    \/ flash_erase_all
    \/ flash_erase_region
    \/ flash_erase_all_unsecure
    \/ configure_memory
    \/ write_memory
    \/ fuse_program
    \/ receive_sb_file
    \/ load_image
    \/ read_memory
    \/ fuse_read
    \/ get_property
    \/ trust_provisioning
    \/ key_provisioning
    \/ flash_read_once
    \/ flash_program_once
    \/ write_command_packet
    \/ write_data_packet
    \/ read_command_first
    \/ read_command_data
    \/ read_command_last
    \/ caller_takes_result

Spec == Init /\ [][Next]_vars

(***************************************************************************)
(* The link on its own: a caller of the Protocol trait writes and reads     *)
(* frames in any order; `frames` keeps the last link operation and, in      *)
(* brief, the one before it.                                                *)
(***************************************************************************)
\* the frames the caller writes: a CMD frame and a DATA frame
LinkPackets ==
    { construct_frame(header_flag(GetMaxPacketSize), to_params(GetMaxPacketSize)[1],
                      code(GetMaxPacketSize)),
      construct_data(HostBytes(MaxSize)) }

\* the payloads the device answers with
LinkPayloads == { PlainResponse } \cup DevDataPayloads(0)

\* everything the device may send to a link that reads a frame of `type`
LinkFrames(t, type) ==
    { GoodFrame(t, type, p) : p \in LinkPayloads } \cup DevFaults(t, type, PlainResponse)

\* a link operation in brief: its direction, frame type and result, and the
\* acknowledgment frames it read
Brief(f) ==
    [f EXCEPT !.payload = <<>>, !.head = <<>>,
              !.ev = SelectSeq(@, LAMBDA e : /\ e.e = "rx" /\ e.part = "ack"
                                            /\ e.bytes[1] = START
                                            /\ e.bytes[2] \in { ACK, NACK, ACK_ABORT })]

\* the last link operation in brief, with the one performed after it
Recent(rec) ==
    (IF frames = <<>> THEN <<>> ELSE << Brief(frames[Len(frames)]) >>) \o << rec >>

LinkInit == Init

Protocol_write_packet_raw ==
    /\ \E packet \in LinkPackets :
          \E a \in AckInputs(transport, MaxBusy) :
              \E out \in { write_packet_raw(transport, packet, a) } :
                  /\ AcksRead(out) = Len(a)
                  /\ frames' = Recent(Written(packet[2], Drop(packet, 6), out))
    /\ lastRx' = NoRx
    /\ UNCHANGED << transport, mask_read_data_phase, op, pc, sc, rc, response, result,
                    streamed, inflight >>

Protocol_read_packet_raw ==
    /\ \E type \in { CMD, DATA_PHASE_CODE } :
          \E d \in LinkFrames(transport, type) :
              \E out \in { read_packet_raw(transport, type, d) } :
                  /\ frames' = Recent(Received(type, out))
                  /\ lastRx' = [d |-> d, err |-> out.err, payload |-> out.payload]
    /\ UNCHANGED << transport, mask_read_data_phase, op, pc, sc, rc, response, result,
                    streamed, inflight >>

LinkNext ==
    \/ Protocol_write_packet_raw
    \/ Protocol_read_packet_raw

LinkSpec == LinkInit /\ [][LinkNext]_vars

(***************************************************************************)
(* The codec and the decoders on their own: a response word is decoded,     *)
(* frames are constructed from any header and                               *)
(* parameter list and handed to the link, constructed frames are fed back   *)
(* to the frame reader, and the link is given well-formed and damaged       *)
(* frames to write; the functions are pure, so a behaviour makes one call   *)
(* and `frames` keeps it.                                                   *)
(***************************************************************************)
\* the command codes, parameter words and payload bytes the calls are made with
CodecCodes == { GetPropertyCode, FlashProgramOnceCode, KeyProvisioningCode }

CodecWords == { 0, 81, 305419896 }

CodecBytes == { 0, START, 255 }

CodecParams == SeqsUpTo(CodecWords, MaxParams)

\* a payload whose length needs both length bytes
LongPayload == [i \in 1..LongLen |-> (7 * i) % 256]

CodecPayloads == (SeqsUpTo(CodecBytes, MaxLen) \ { <<>> }) \cup { LongPayload }

\* the commands the packet tests build, and the internal query
CodecCommands ==
    { Cmd("get_property", "", CurrentVersionTag, 0, 0, <<>>, FALSE),
      Cmd("flash_program_once", "", 81, 4, 305419896, <<>>, FALSE),
      Cmd("write_memory", "", 0, 0, 0, HostBytes(MaxLen), FALSE),
      GetMaxPacketSize }

\* the serial frame reader takes a byte stream apart with read_exact: two bytes of
\* header, two of length, two of CRC, then as many payload bytes as the length
\* says; a stream that ends early is an I/O error; a USB-HID read takes the bytes
\* as one report
Feed(t, bytes) ==
    IF t = "usb"
    THEN [io |-> 0, hdr |-> <<>>, len |-> 0, crc |-> 0, payload |-> <<>>, report |-> bytes]
    ELSE IF Len(bytes) < 2
    THEN [io |-> 1, hdr |-> <<>>, len |-> 0, crc |-> 0, payload |-> <<>>, report |-> <<>>]
    ELSE IF Len(bytes) < 6
    THEN [io |-> 4, hdr |-> Take(bytes, 2), len |-> 0, crc |-> 0, payload |-> <<>>,
          report |-> <<>>]
    ELSE LET length == FromLE16(SubSeq(bytes, 3, 4))
         IN  [io |-> IF Len(bytes) < 6 + length THEN 4 ELSE 0,
              hdr |-> Take(bytes, 2), len |-> length,
              crc |-> FromLE16(SubSeq(bytes, 5, 6)),
              payload |-> SubSeq(bytes, 7, 6 + length), report |-> <<>>]

\* frames a caller may hand to write_packet_raw: constructed frames of three
\* types, with bytes beyond the declared length, cut short, with another start byte
CodecFrames ==
    LET good == { construct_header(t, p) : t \in { CMD, DATA_PHASE_CODE, PING },
                                          p \in SeqsUpTo(CodecBytes, MaxLen) }
    IN  good \cup { f \o << 255 >> : f \in good }
             \cup { Take(f, n) : f \in good, n \in { 0, 5, 6 } }
             \cup { Take(f, Len(f) - 1) : f \in good }
             \cup { << 0 >> \o Tail(f) : f \in good }

CodecCall(fn, cmd, command_code, flag, params, packet, out) ==
    [call |-> fn, cmd |-> cmd, code |-> command_code, flag |-> flag, params |-> params,
     packet |-> packet, out |-> out]

\* the discriminants of CommandTag: 0x00..0x19, 0x20 (EL2GO) and 0xC1..0xC3
CommandTagDiscriminants == (0..25) \cup { 32, 193, 194, 195 }

\* a 32-bit word with bit k alone set, as its four little-endian bytes
OneBit(k) == [i \in 1..4 |-> IF i = (k \div 8) + 1 THEN 2 ^ (k % 8) ELSE 0]

\* a mask that is shifted by the command code itself
shl_by_code(tag_value, overflow_checks) ==
    IF tag_value >= 32 THEN (IF overflow_checks THEN << >> ELSE OneBit(tag_value % 32))
    ELSE OneBit(tag_value)

\* `1 << (tag_value - 1)` on u32: a shift by 32 or more panics in a build with
\* overflow checks (the empty tuple) and is taken modulo 32 in a build without
shl(tag_value, overflow_checks) ==
    IF tag_value - 1 >= 32 THEN (IF overflow_checks THEN << >> ELSE OneBit((tag_value - 1) % 32))
    ELSE OneBit(tag_value - 1)

\* PropertyTag::from_code for AvailableCommands: the commands whose mask meets the
\* response word; the word is kept as its four little-endian bytes, the way it
\* arrives, values from 2^31 on being too large for the model checker's integers
AvailableCommands(word, overflow_checks) ==
    LET candidates == { t \in CommandTagDiscriminants : 0 < t /\ t < 160 }
    IN  IF \E t \in candidates : shl(t, overflow_checks) = << >>
        THEN [panic |-> TRUE, commands |-> {}]
        ELSE [panic |-> FALSE,
              commands |-> { t \in candidates :
                               \E i \in 1..4 :
                                   BitAnd(word[i], shl(t, overflow_checks)[i]) # 0 }]

\* response words the decoder is given: none, all, each bit alone, each bit alone
\* missing, alternating bits
AvailableWords ==
    { OneBit(k) : k \in 0..31 }
        \cup { [i \in 1..4 |-> 255 - OneBit(k)[i]] : k \in 0..31 }
        \cup { << 0, 0, 0, 0 >>, << 255, 255, 255, 255 >>, << 170, 85, 170, 85 >>,
               << 85, 170, 85, 170 >> }

CodecInit == Init

\* CommandHeader::construct_frame on any code, flag and parameter list; the frame
\* goes to write_packet_raw
CommandHeader_construct_frame ==
    /\ frames = <<>>
    /\ \E command_code \in CodecCodes, flag \in { NoData, HasDataPhase },
          params \in CodecParams :
          \E packet \in { construct_frame(flag, params, command_code) } :
              \E a \in AckInputs(transport, 0) :
                  \E out \in { write_packet_raw(transport, packet, a) } :
                      /\ AcksRead(out) = Len(a)
                      /\ frames' = << CodecCall("construct_frame", NoCmd, command_code, flag,
                                                params, packet, out) >>
    /\ UNCHANGED << transport, mask_read_data_phase, op, pc, sc, rc, response, result,
                    streamed, inflight, lastRx >>

\* `command.header.construct_frame(&command.tag.to_params().0, command.tag.code())`
\* as send_command and the packet tests call it
CommandPacket_construct_frame ==
    /\ frames = <<>>
    /\ \E c \in CodecCommands :
          \E packet \in { construct_frame(header_flag(c), to_params(c)[1], code(c)) } :
              \E a \in AckInputs(transport, 0) :
                  \E out \in { write_packet_raw(transport, packet, a) } :
                      /\ AcksRead(out) = Len(a)
                      /\ frames' = << CodecCall("command", c, code(c), header_flag(c),
                                                to_params(c)[1], packet, out) >>
    /\ UNCHANGED << transport, mask_read_data_phase, op, pc, sc, rc, response, result,
                    streamed, inflight, lastRx >>

\* a frame made by construct_header is what the link reads next
construct_header_then_read ==
    /\ frames = <<>>
    /\ \E t \in { CMD, DATA_PHASE_CODE }, packet_code \in { CMD, DATA_PHASE_CODE },
          p \in CodecPayloads :
          \E packet \in { construct_header(t, p) } :
              \E out \in { read_packet_raw(transport, packet_code, Feed(transport, packet)) } :
                  frames' = << CodecCall("read", NoCmd, t, packet_code, p, packet, out) >>
    /\ UNCHANGED << transport, mask_read_data_phase, op, pc, sc, rc, response, result,
                    streamed, inflight, lastRx >>

\* write_packet_raw on whatever bytes the caller hands over
Protocol_write_frame ==
    /\ frames = <<>>
    /\ \E packet \in CodecFrames :
          \E a \in AckInputs(transport, 0) :
              \E out \in { write_packet_raw(transport, packet, a) } :
                  /\ AcksRead(out) = Len(a)
                  /\ frames' = << CodecCall("write", NoCmd, 0, 0, <<>>, packet, out) >>
    /\ UNCHANGED << transport, mask_read_data_phase, op, pc, sc, rc, response, result,
                    streamed, inflight, lastRx >>

\* send_command's data phase: `for bytes in data.chunks(max_packet_size)` builds
\* one DATA frame from each chunk, in order
RECURSIVE data_phase_frames(_, _)
data_phase_frames(data, max_packet_size) ==
    IF data = <<>> THEN <<>>
    ELSE << construct_data(chunks(data, max_packet_size)) >>
             \o data_phase_frames(Drop(data, max_packet_size), max_packet_size)

\* the inputs of the data-phase writer: short inputs at small and large packet
\* sizes, and one input of HugeLen bytes at packet sizes around HugeLen
CodecTransfers ==
    { << HostBytes(n), m >> : n \in 0..(MaxLen + 1), m \in { 1, MaxLen, HugeLen } }
    \cup { << HostBytes(HugeLen), m >> : m \in { HugeLen - 1, HugeLen } }

\* the data phase of send_command at a reported MaxPacketSize of at least 1
McuBoot_send_data_phase ==
    /\ frames = <<>>
    /\ \E x \in CodecTransfers :
          frames' = << [call |-> "data_phase", data |-> x[1], max_packet_size |-> x[2],
                        out |-> data_phase_frames(x[1], x[2])] >>
    /\ UNCHANGED << transport, mask_read_data_phase, op, pc, sc, rc, response, result,
                    streamed, inflight, lastRx >>

\* get_property(AvailableCommands) decodes the word of the response
PropertyTag_from_code_AvailableCommands ==
    /\ frames = <<>>
    /\ \E word \in AvailableWords, overflow_checks \in BOOLEAN :
          frames' = << [call |-> "available_commands", word |-> word,
                        overflow_checks |-> overflow_checks,
                        out |-> AvailableCommands(word, overflow_checks)] >>
    /\ UNCHANGED << transport, mask_read_data_phase, op, pc, sc, rc, response, result,
                    streamed, inflight, lastRx >>

CodecNext ==
    \/ CommandHeader_construct_frame
    \/ CommandPacket_construct_frame
    \/ construct_header_then_read
    \/ Protocol_write_frame
    \/ McuBoot_send_data_phase
    \/ PropertyTag_from_code_AvailableCommands

CodecSpec == CodecInit /\ [][CodecNext]_vars

(***************************************************************************)
(* Opening a link: the serial transports ping the device before the link    *)
(* is handed out; frames are then written on the session that owns it.      *)
(* `frames` keeps the open call and the writes after it.                    *)
(***************************************************************************)
\* a parse that reads the version least significant byte first
PingResponse_parse_little_endian(bytes) ==
    [version |-> bytes[3] + bytes[4] * 256 + bytes[5] * 65536 + bytes[6] * 16777216,
     options |-> bytes[7] + 256 * bytes[8]]

\* PingResponse::parse: the version from bytes 2..6 big-endian, the options from
\* bytes 6..8 little-endian, counted from the start of the slice it is given
PingResponse_parse(bytes) ==
    [version |-> bytes[3] * 16777216 + bytes[4] * 65536 + bytes[5] * 256 + bytes[6],
     options |-> bytes[7] + 256 * bytes[8]]

\* a ping result: `searched` bytes were read looking for the start byte, `read`
\* bytes in all, after the two bytes `tx` were written
PingOk(resp, searched, n) ==
    [err |-> "Ok", version |-> resp.version, options |-> resp.options,
     tx |-> << START, PING >>, searched |-> searched, read |-> n]

PingErr(err, searched, n) ==
    [err |-> err, version |-> 0, options |-> 0,
     tx |-> << START, PING >>, searched |-> searched, read |-> n]

\* no ping was made
NoPing == [err |-> "none", version |-> 0, options |-> 0, tx |-> <<>>, searched |-> 0, read |-> 0]

\* a ping that searches the whole stream for the start byte
UART_ping_unbounded(stream) ==
    LET idx == { i \in 1..Len(stream) : stream[i] = START }
    IN  IF idx = {} THEN PingErr("IOError", Len(stream), Len(stream))
        ELSE LET k    == CHOOSE i \in idx : \A j \in idx : i <= j
                 rest == Drop(stream, k)
             IN  IF rest = <<>> THEN PingErr("IOError", k, k)
                 ELSE IF rest[1] # PINGR THEN PingErr("InvalidHeader", k, k + 1)
                 ELSE IF Len(rest) < 9 THEN PingErr("IOError", k, k + 1)
                 ELSE LET buf == << START, rest[1] >> \o SubSeq(rest, 2, 9)
                          crc == FromLE16(SubSeq(buf, 9, 10))
                      IN  IF CRC_CHECK(SubSeq(buf, 1, 8)) # crc
                          THEN PingErr("InvalidCrc", k, k + 9)
                          ELSE PingOk(PingResponse_parse(buf), k, k + 9)

\* uart.rs ping; stream is what the device sends, a read_exact past its end fails
UART_ping(stream) ==
    LET window == Take(stream, MAX_PING_RESPONSE_DUMMY_BYTES)
        idx    == { i \in 1..Len(window) : window[i] = START }
    IN  IF idx = {}
        THEN IF Len(stream) < MAX_PING_RESPONSE_DUMMY_BYTES
             THEN PingErr("IOError", Len(stream), Len(stream))
             ELSE PingErr("InvalidHeader", MAX_PING_RESPONSE_DUMMY_BYTES,
                          MAX_PING_RESPONSE_DUMMY_BYTES)
        ELSE LET k    == CHOOSE i \in idx : \A j \in idx : i <= j
                 rest == Drop(stream, k)
             IN  IF rest = <<>> THEN PingErr("IOError", k, k)
                 ELSE IF rest[1] # PINGR THEN PingErr("InvalidHeader", k, k + 1)
                 ELSE IF Len(rest) < 9 THEN PingErr("IOError", k, k + 1)
                 ELSE LET buf == << START, rest[1] >> \o SubSeq(rest, 2, 9)
                          crc == FromLE16(SubSeq(buf, 9, 10))
                      IN  IF CRC_CHECK(SubSeq(buf, 1, 8)) # crc
                          THEN PingErr("InvalidCrc", k, k + 9)
                          ELSE PingOk(PingResponse_parse(buf), k, k + 9)

\* i2c_unix.rs ping
I2C_ping(stream) ==
    LET window == Take(stream, MAX_PING_RESPONSE_DUMMY_BYTES)
        idx    == { i \in 1..Len(window) : window[i] = START }
    IN  IF idx = {}
        THEN IF Len(stream) < MAX_PING_RESPONSE_DUMMY_BYTES
             THEN PingErr("IOError", Len(stream), Len(stream))
             ELSE PingErr("InvalidHeader", MAX_PING_RESPONSE_DUMMY_BYTES,
                          MAX_PING_RESPONSE_DUMMY_BYTES)
        ELSE LET k    == CHOOSE i \in idx : \A j \in idx : i <= j
                 rest == Drop(stream, k)
             IN  IF rest = <<>> THEN PingErr("IOError", k, k)
                 ELSE IF rest[1] # PINGR THEN PingErr("InvalidHeader", k, k + 1)
                 ELSE IF Len(rest) < 9 THEN PingErr("IOError", k, k + 1)
                 ELSE LET buf == << START, rest[1] >> \o SubSeq(rest, 2, 9)
                          crc == FromLE16(SubSeq(buf, 9, 10))
                      IN  IF CRC_CHECK(SubSeq(buf, 1, 8)) # crc
                          THEN PingErr("InvalidCrc", k, k + 9)
                          ELSE PingOk(PingResponse_parse(buf), k, k + 9)

\* the result of an open call: whether a link is returned, and the ping it made
Opened(out) == [link |-> out.err = "Ok", out |-> out]

\* the port, the device file or the HID device cannot be opened
OpenFailed == [link |-> FALSE, out |-> [NoPing EXCEPT !.err = "IOError"]]

\* an open that hands out the link whatever the ping returned
UART_open_unchecked(present, stream) ==
    IF ~present THEN OpenFailed ELSE [link |-> TRUE, out |-> UART_ping(stream)]

\* uart.rs open_with_options: `device.ping()?; Ok(device)`
UART_open_with_options(present, stream) ==
    IF ~present THEN OpenFailed ELSE Opened(UART_ping(stream))

\* i2c_unix.rs open_with_options: `device.ping()?; Ok(device)`
I2C_open_with_options(present, stream) ==
    IF ~present THEN OpenFailed ELSE Opened(I2C_ping(stream))

\* usb.rs open_with_options: the HID device is opened and returned, nothing is
\* written or read
USB_open_with_options(present, stream) ==
    IF ~present THEN OpenFailed ELSE [link |-> TRUE, out |-> NoPing]

\* a ping response as a device puts it on the wire: 5A A7, four version bytes, two
\* option bytes and the CRC of these eight bytes, little-endian
PingFrame(ver, opt, crc_delta) ==
    LET v == << START, PINGR >> \o ver \o opt
    IN  v \o U16LE((CRC_CHECK(v) + crc_delta) % 65536)

\* a ping response laid out like a CMD frame: 5A A7, length 8, a CRC field, then
\* 00 00, the version 00 03 01 50 and the options 00 00
FramedPingResponse(crc) == << START, PINGR, 8, 0 >> \o crc \o << 0, 0, 0, 3, 1, 80, 0, 0 >>

PingVersions == { << 0, 3, 1, 80 >>, << 1, 2, 0, 75 >> }

PingOptions == { << 0, 0 >>, << 2, 1 >> }

\* bytes a device sends before the start byte: none, one, one fewer than the search
\* reads, as many as it reads
DummyRuns ==
    { [i \in 1..k |-> 0] : k \in { 0, 1, MAX_PING_RESPONSE_DUMMY_BYTES - 1,
                                   MAX_PING_RESPONSE_DUMMY_BYTES } } \cup { << 255, 0 >> }

\* what follows the dummy bytes: a response, one with a wrong CRC, another frame
\* type, silence, a response cut short, a framed response with the frame CRC, with
\* the one CRC field the reader accepts, and with a zero CRC field
PingTails ==
    { PingFrame(v, o, 0) : v \in PingVersions, o \in PingOptions }
        \cup { PingFrame(<< 0, 3, 1, 80 >>, << 0, 0 >>, 1),
               << START, ACK >>,
               << START, CMD, 0, 3, 1, 80, 0, 0, 251, 64 >>,
               <<>>, << START >>, << START, PINGR, 0, 3, 1 >>,
               FramedPingResponse(U16LE(CRC_CHECK(<< START, PINGR, 8, 0, 0, 0, 0, 3, 1, 80, 0, 0 >>))),
               FramedPingResponse(<< 81, 188 >>),
               FramedPingResponse(<< 0, 0 >>) }

PingStreams == { d \o t : d \in DummyRuns, t \in PingTails }

OpenInit == Init

\* ProtocolOpen::open_with_options of the transport the session is created on
open_with_options ==
    /\ frames = <<>>
    /\ \E present \in BOOLEAN :
          \E stream \in (IF present /\ transport # "usb" THEN PingStreams ELSE { <<>> }) :
              \E res \in { CASE transport = "uart" -> UART_open_with_options(present, stream)
                             [] transport = "i2c"  -> I2C_open_with_options(present, stream)
                             [] transport = "usb"  -> USB_open_with_options(present, stream) } :
                  frames' = << [call |-> "open", stream |-> stream, link |-> res.link,
                                out |-> res.out] >>
    /\ UNCHANGED << transport, mask_read_data_phase, op, pc, sc, rc, response, result,
                    streamed, inflight, lastRx >>

\* a session exists once the link is returned (McuBoot::new takes the device by
\* value); it writes CMD and DATA frames through it
session_write_packet_raw ==
    /\ frames # <<>>
    /\ frames[1].link
    /\ Len(frames) <= MaxWrites
    /\ \E packet \in LinkPackets :
          \E a \in AckInputs(transport, 0) :
              \E out \in { write_packet_raw(transport, packet, a) } :
                  /\ AcksRead(out) = Len(a)
                  /\ frames' = Append(frames, [call |-> "write", type |-> packet[2],
                                               err |-> out.err])
    /\ UNCHANGED << transport, mask_read_data_phase, op, pc, sc, rc, response, result,
                    streamed, inflight, lastRx >>

OpenNext ==
    \/ open_with_options
    \/ session_write_packet_raw

OpenSpec == OpenInit /\ [][OpenNext]_vars

(***************************************************************************)
(* Properties.                                                             *)
(***************************************************************************)
\* what a link operation of the history was: a write or a read of a CMD or DATA frame
Kind(f) ==
    IF f.dir = "write" THEN (IF f.type = CMD THEN "wCMD" ELSE "wDATA")
    ELSE (IF f.type = CMD THEN "rCMD" ELSE "rDATA")

\* the payload of the CMD frame of command c
CommandPayload(c) ==
    LET params == to_params(c)[1]
    IN  << code(c), header_flag(c), 0, Len(params) % 256 >>
            \o Concat([i \in 1..Len(params) |-> U32LE(params[i])])

\* the status a received response carries
HeadStatus(f) == parse_status(SubSeq(f.head, 3, 6))

\* the number of chunks of n bytes at m bytes a chunk
Chunks(n, m) == IF m = 0 THEN 0 ELSE (n + m - 1) \div m

\* the DATA frames an outbound operation owes once MaxPacketSize is known
Owed == Chunks(Len(op.bytes), sc.max_packet_size)

\* every frame so far was acknowledged and every response read so far is a generic
\* or property response without data phase whose status is Success
CleanRun ==
    \A i \in 1..Len(frames) :
        /\ frames[i].err = "Ok"
        /\ frames[i].dir = "read" =>
              /\ Len(frames[i].head) = 6
              /\ frames[i].head[1] \in { GenericResponseTag, GetPropertyResponseTag }
              /\ frames[i].head[2] = NoData
              /\ HeadStatus(frames[i]).ok
              /\ is_success(HeadStatus(frames[i]).status)

\* the link operation an outbound operation performs at position i of a clean run
ExpectedKind(i) ==
    CASE i \in { 1, 3 } -> "wCMD"
      [] i \in { 2, 4 } -> "rCMD"
      [] i \in 5..(4 + Owed) -> "wDATA"
      [] i = 5 + Owed -> "rCMD"
      [] OTHER -> "none"

HasOutbound == op.name # "" /\ to_params(op)[2].some

\* the DATA frames written so far
DataWrites == SelectSeq(frames, LAMBDA f : f.dir = "write" /\ f.type = DATA_PHASE_CODE)

\* C2: an outbound data phase of len bytes at MaxPacketSize m >= 1 writes exactly
\* ceil(len / m) DATA frames (none when len = 0); every frame but the last carries
\* m bytes, the last between 1 and m; the payloads in order make up the input (at
\* any moment: the payloads written so far followed by the bytes still to send).
C2_Chunking ==
    HasOutbound =>
        LET ws == DataWrites
            m  == sc.max_packet_size
        IN  /\ Concat([i \in 1..Len(ws) |-> ws[i].payload]) \o sc.rest = op.bytes
            /\ \A i \in 1..Len(ws) :
                  /\ m >= 1
                  /\ Len(ws[i].payload) >= 1
                  /\ Len(ws[i].payload) <= m
                  /\ i < Len(ws) => Len(ws[i].payload) = m
            /\ (sc.rest = <<>> /\ m >= 1) => Len(ws) = Chunks(Len(op.bytes), m)
            /\ op.bytes = <<>> => Len(ws) = 0

\* a data phase of MaxData bytes is complete, in several frames, the last one short
C2_Witness ==
    /\ HasOutbound
    /\ sc.rest = <<>>
    /\ Len(DataWrites) >= 2
    /\ Len(DataWrites[Len(DataWrites)].payload) < sc.max_packet_size
    /\ \A i \in 1..Len(DataWrites) : DataWrites[i].err = "Ok"

\* the link operation at position i returned an error to the engine
LinkFailed(i) ==
    /\ frames[i].err # "Ok"
    /\ ~(frames[i].dir = "read" /\ frames[i].type = DATA_PHASE_CODE
            /\ frames[i].err = "Aborted")

\* the response read at position i closes its exchange with a status other than Success
StatusFailed(i) ==
    /\ frames[i].dir = "read"
    /\ frames[i].type = CMD
    /\ frames[i].err = "Ok"
    /\ Len(frames[i].head) = 6
    /\ frames[i].head[2] = NoData
    /\ ~is_success(HeadStatus(frames[i]).status)

\* the operation ended at position i of its history with an error
EndedAt(i) == i = Len(frames) /\ pc = <<>> /\ result.kind = "Err"

\* C3: in write_memory, a frame that is refused (NACKSent on the CMD frame or on a
\* DATA frame), any other failed link operation, and a response whose status is
\* not Success each end the operation: it returns that error (the link error, or
\* UnexpectedStatus carrying the status) and no further frame is written or read; a
\* failure before the data phase leaves no DATA frame written.
C3_StopAtFailure ==
    op.name = "write_memory" =>
        \A i \in 1..Len(frames) :
            /\ LinkFailed(i) => (EndedAt(i) /\ result.err = frames[i].err)
            /\ StatusFailed(i) =>
                  /\ EndedAt(i)
                  /\ result.err = "UnexpectedStatus"
                  /\ result.raw = FromLE32(SubSeq(frames[i].head, 3, 6))
            /\ (LinkFailed(i) \/ StatusFailed(i)) /\ i <= 4 => Len(DataWrites) = 0

\* write_memory with bytes to send had its own CMD frame refused
C3_Witness ==
    /\ op.name = "write_memory"
    /\ op.bytes # <<>>
    /\ Len(frames) = 3
    /\ frames[3].dir = "write"
    /\ frames[3].err = "NACKSent"
    /\ result.kind = "Err"
    /\ result.err = "NACKSent"
    /\ sc.rest = op.bytes

\* the DATA frames read so far, and the bytes they delivered
DataReads == SelectSeq(frames, LAMBDA f : f.dir = "read" /\ f.type = DATA_PHASE_CODE)

DataBytes == Concat([i \in 1..Len(DataReads) |-> DataReads[i].payload])

\* read_memory or fuse_read wrote its CMD frame and the first CMD response is a
\* read-memory response flagged HasDataPhase that declares a length
InboundOpen ==
    /\ op.name \in { "read_memory", "fuse_read" }
    /\ Len(frames) >= 2
    /\ frames[1].dir = "write" /\ frames[1].err = "Ok"
    /\ frames[2].dir = "read" /\ frames[2].type = CMD /\ frames[2].err = "Ok"
    /\ Len(frames[2].head) = 10
    /\ frames[2].head[1] = ReadMemoryResponseTag
    /\ frames[2].head[2] = HasDataPhase

Declared == FromLE32(SubSeq(frames[2].head, 7, 10))

\* the device has sent only well-formed DATA frames, no more than it declared
ExactSoFar ==
    /\ \A i \in 1..Len(DataReads) : DataReads[i].err = "Ok"
    /\ Len(DataBytes) <= Declared

\* the status with which read_memory and fuse_read return Ok
Acceptable(status) ==
    is_success(status) \/ (op.name = "read_memory" /\ is_memory_blank_page_read_disallowed(status))

\* the operation returned what the final CMD frame f and the DATA frames make up
ReturnsInbound(f) ==
    /\ pc = <<>>
    /\ (f.err = "Ok" /\ Len(f.head) >= 6 /\ HeadStatus(f).ok) =>
          IF Acceptable(HeadStatus(f).status)
          THEN /\ result.kind = "Ok"
               /\ result.status = HeadStatus(f).status
               /\ result.bytes = DataBytes
               /\ Len(result.bytes) = Declared
               /\ result.words = << Declared >>
          ELSE /\ result.kind = "Err"
               /\ result.err = "UnexpectedStatus"
               /\ result.status = HeadStatus(f).status

\* while the device has delivered fewer than the declared bytes the engine is about
\* to read a DATA frame; once it has delivered exactly the declared bytes the engine
\* reads one more CMD frame and returns
InboundExact ==
    (InboundOpen /\ ExactSoFar) =>
        IF Len(DataBytes) < Declared
        THEN Len(frames) = 2 + Len(DataReads) /\ pc # <<>> /\ rc.phase = "data"
        ELSE \/ Len(frames) = 2 + Len(DataReads) /\ pc # <<>> /\ rc.phase = "final"
             \/ /\ Len(frames) = 3 + Len(DataReads)
                /\ Kind(frames[Len(frames)]) = "rCMD"
                /\ ReturnsInbound(frames[Len(frames)])

\* C4: for read_memory and fuse_read, when the first CMD response is flagged
\* HasDataPhase and declares L bytes and the device sends DATA frames totalling
\* exactly L, the engine reads exactly those DATA frames, then exactly one more CMD
\* frame, and returns the concatenation of the DATA payloads (length L) with the
\* status of the final CMD frame and response_words = [L].
C4_InboundExact == InboundExact

\* the same on a session whose data-phase override is off
C4_InboundExactUnmasked == ~mask_read_data_phase => InboundExact

\* read_memory returned MaxSize bytes that arrived in more than one DATA frame
C4_Reached ==
    /\ InboundOpen
    /\ ExactSoFar
    /\ Declared = MaxSize
    /\ Len(DataReads) >= 2
    /\ result.kind = "Ok"
    /\ result.bytes = DataBytes
    /\ Len(result.bytes) = MaxSize

\* an operation that returns a buffer wrote its CMD frame and got the first CMD
\* response of its kind, flagged HasDataPhase and declaring a length
InboundPhase ==
    /\ \/ op.name \in { "read_memory", "fuse_read" }
       \/ op.name = "key_provisioning" /\ op.sub = "ReadKeyStore"
    /\ Len(frames) >= 2
    /\ frames[1].dir = "write" /\ frames[1].err = "Ok"
    /\ frames[2].dir = "read" /\ frames[2].type = CMD /\ frames[2].err = "Ok"
    /\ Len(frames[2].head) = 10
    /\ frames[2].head[1] = (IF op.name = "key_provisioning" THEN KeyProvisioningResponseTag
                           ELSE ReadMemoryResponseTag)
    /\ frames[2].head[2] = HasDataPhase

\* the bytes the DATA frames before link operation i delivered
BytesBefore(i) ==
    LET got == SelectSeq(SubSeq(frames, 1, i - 1),
                         LAMBDA f : f.dir = "read" /\ f.type = DATA_PHASE_CODE /\ f.err = "Ok")
    IN  Concat([j \in 1..Len(got) |-> got[j].payload])

\* link operation i read a zero-length DATA frame before the declared bytes were in
AbortedPartway(i) ==
    /\ InboundPhase
    /\ Kind(frames[i]) = "rDATA"
    /\ frames[i].err = "Aborted"
    /\ Len(BytesBefore(i)) < Declared

\* C5 as stated: in an inbound data phase with declared length L, when the device
\* sends a zero-length frame after fewer than L bytes, the operation reports the
\* error Aborted and the buffer it returns has the length received before that
\* frame (every other frame of the operation arriving intact).
C5_AbortReported ==
    \A i \in 1..Len(frames) :
        (/\ AbortedPartway(i)
         /\ \A j \in 1..Len(frames) : j # i => frames[j].err = "Ok"
         /\ pc = <<>> /\ result.kind \in { "Ok", "Err" }) =>
            /\ result.kind = "Err" /\ result.err = "Aborted"
            /\ Len(result.bytes) <= Len(BytesBefore(i))

\* the operation returned what the final CMD frame f decides, with the bytes got
ReturnsPartial(f, got) ==
    /\ pc = <<>>
    /\ result.kind # "none"
    /\ f.err \notin { "Ok", "Panic" } => result.kind = "Err" /\ result.err = f.err
    /\ (f.err = "Ok" /\ Len(f.head) >= 6 /\ HeadStatus(f).ok) =>
          IF Acceptable(HeadStatus(f).status)
          THEN /\ result.kind = "Ok"
               /\ result.status = HeadStatus(f).status
               /\ result.bytes = got
          ELSE /\ result.kind = "Err"
               /\ result.err = "UnexpectedStatus"
               /\ result.status = HeadStatus(f).status

\* C5: in an inbound data phase with declared length L, a zero-length DATA frame
\* after fewer than L bytes ends the reading of DATA frames: the engine reads one
\* more CMD frame and that frame decides the result - Ok with a buffer of exactly
\* the bytes received before the zero-length frame when its status is acceptable,
\* the status as an error otherwise, the link error when reading it fails.
C5_AbortEndsStream ==
    \A i \in 1..Len(frames) :
        AbortedPartway(i) =>
            \/ /\ i = Len(frames)
               /\ pc # <<>> /\ rc.phase = "final" /\ rc.buf = BytesBefore(i)
            \/ /\ i + 1 = Len(frames)
               /\ Kind(frames[i + 1]) = "rCMD"
               /\ ReturnsPartial(frames[i + 1], BytesBefore(i))

\* read_memory returned Ok with the one byte that arrived before a zero-length
\* DATA frame, of the MaxSize declared
C5_Witness ==
    /\ Len(frames) = 5
    /\ AbortedPartway(4)
    /\ Declared = MaxSize
    /\ Len(BytesBefore(4)) = 1
    /\ frames[5].err = "Ok"
    /\ op.name = "read_memory"
    /\ result.kind = "Ok"
    /\ result.bytes = BytesBefore(4)

\* a key_provisioning operation other than ReadKeyStore is the current operation
MaskedKeyProv == op.name = "key_provisioning" /\ op.sub # "ReadKeyStore"

AckReads(f) == SelectSeq(f.ev, LAMBDA e : e.e = "rx" /\ e.part = "ack")

\* those of them that are acknowledgment frames: 5A A1, 5A A2, 5A A3
AckClass(f) ==
    SelectSeq(AckReads(f), LAMBDA e : e.bytes[1] = START /\ e.bytes[2] \in { ACK, NACK, ACK_ABORT })

\* C7: on UART and I2C a write_packet_raw that returns Ok wrote its frame once and
\* then read exactly one acknowledgment frame, 5A A1, as the last thing it did (on
\* UART it read nothing else); a frame is written after another only when that
\* write consumed its acknowledgment frame or returned an error; on USB-HID
\* write_packet_raw reads nothing.
C7_AckPerWrite ==
    \A i \in 1..Len(frames) :
        frames[i].dir = "write" =>
            LET f == frames[i]
            IN  IF transport = "usb"
                THEN \A k \in 1..Len(f.ev) : f.ev[k].e = "tx"
                ELSE /\ (i = Len(frames) /\ f.err = "Ok") =>
                          /\ Len(f.ev) >= 2
                          /\ f.ev[1] = Tx("frame", construct_header(f.type, f.payload))
                          /\ \A k \in 2..Len(f.ev) : f.ev[k].e = "rx" /\ f.ev[k].part = "ack"
                          /\ Len(AckClass(f)) = 1
                          /\ f.ev[Len(f.ev)].bytes = << START, ACK >>
                          /\ transport = "uart" => Len(AckReads(f)) = 1
                     /\ (i < Len(frames) /\ frames[i + 1].dir = "write") =>
                          f.err # "Ok" \/ Len(AckClass(f)) = 1

\* on I2C two frames were written one after the other, the second acknowledged
\* after a busy pair was skipped
C7_Witness ==
    /\ transport = "i2c"
    /\ Len(frames) = 2
    /\ frames[1].dir = "write" /\ frames[1].err = "Ok"
    /\ frames[2].dir = "write" /\ frames[2].err = "Ok"
    /\ Len(AckReads(frames[2])) = 2
    /\ AckReads(frames[2])[1].bytes = << 0, 0 >>

\* the last link operation was a read on a serial link
SerialRead ==
    /\ transport # "usb"
    /\ frames # <<>>
    /\ frames[Len(frames)].dir = "read"
    /\ lastRx.err # "none"

LastOp == frames[Len(frames)]

\* what the last read wrote to the link
AcksWritten == SelectSeq(LastOp.ev, LAMBDA e : e.e = "tx")

\* C8: on UART and I2C, for a received frame whose first two bytes are 5A and the
\* expected type, read_packet_raw writes exactly one ACK (5A A1), after the length,
\* CRC and payload bytes were read and as the last thing it does on the link,
\* whether it then returns the payload, InvalidCrc or Aborted; when the first two
\* bytes do not match it writes nothing.
C8_AckPerRead ==
    SerialRead =>
        /\ (lastRx.d.io = 0 /\ lastRx.d.hdr = << START, LastOp.type >>) =>
              /\ LastOp.err \in { "Ok", "InvalidCrc", "Aborted" }
              /\ Len(AcksWritten) = 1
              /\ Len(LastOp.ev) = 5
              /\ [k \in 1..4 |-> << LastOp.ev[k].e, LastOp.ev[k].part >>]
                    = << << "rx", "hdr" >>, << "rx", "len" >>, << "rx", "crc" >>,
                         << "rx", "payload" >> >>
              /\ LastOp.ev[4].n = lastRx.d.len
              /\ LastOp.ev[5] = Tx("ack", << START, ACK >>)
        /\ (lastRx.d.io = 0 /\ lastRx.d.hdr # << START, LastOp.type >>) =>
              /\ LastOp.err = "InvalidHeader"
              /\ AcksWritten = <<>>

\* a frame with a wrong CRC was acknowledged and then rejected
C8_Witness ==
    /\ SerialRead
    /\ lastRx.d.io = 0
    /\ lastRx.d.hdr = << START, LastOp.type >>
    /\ lastRx.d.len > 0
    /\ LastOp.err = "InvalidCrc"
    /\ Len(AcksWritten) = 1

\* the CRC field of the frame the device sent is the CRC-16/XMODEM of its start
\* byte, type byte, two length bytes and payload
CrcMatches(d) == d.crc = CRC_CHECK(d.hdr \o U16LE(d.len) \o d.payload)

\* C9: on UART and I2C read_packet_raw returns payload bytes only when the CRC field
\* received equals the CRC-16/XMODEM of start byte, type byte, length bytes and
\* payload; on a mismatch it returns InvalidCrc and the engine parses and uses no
\* byte of that payload: the operation ends with InvalidCrc and returns no data.
C9_CrcGuardsPayload ==
    (SerialRead /\ lastRx.d.io = 0) =>
        /\ lastRx.err = "Ok" =>
              /\ CrcMatches(lastRx.d)
              /\ lastRx.d.hdr = << START, LastOp.type >>
              /\ lastRx.payload = lastRx.d.payload
        /\ (lastRx.d.hdr = << START, LastOp.type >> /\ ~CrcMatches(lastRx.d)) =>
              /\ lastRx.err = "InvalidCrc"
              /\ LastOp.err = "InvalidCrc"
              /\ lastRx.payload = <<>>
              /\ LastOp.payload = <<>> /\ LastOp.head = <<>>
              /\ pc = <<>>
              /\ result.kind = "Err" /\ result.err = "InvalidCrc"
              /\ result.bytes = <<>> /\ result.words = <<>>

\* a DATA frame with a wrong CRC arrived in an inbound data phase after some bytes
\* were received: the operation ended with InvalidCrc
C9_Witness ==
    /\ SerialRead
    /\ Kind(LastOp) = "rDATA"
    /\ Len(DataReads) >= 2
    /\ lastRx.d.io = 0
    /\ lastRx.d.payload # <<>>
    /\ ~CrcMatches(lastRx.d)
    /\ result.kind = "Err" /\ result.err = "InvalidCrc"

\* the CMD frames the operation in progress has written
CmdWrites == SelectSeq(frames, LAMBDA f : f.dir = "write" /\ f.type = CMD)

\* the bytes the DATA frames written so far carried
DataSent == Concat([i \in 1..Len(DataWrites) |-> DataWrites[i].payload])

StatusResultOps == StatusOps \cup { "write_memory", "fuse_program" }

\* such an operation has returned after reading its final response, a well-formed
\* generic response without data phase carrying a documented status, every frame
\* before it having been exchanged and answered with Success
FinalStatusRead ==
    /\ op.name \in StatusResultOps
    /\ pc = <<>>
    /\ result.kind \in { "Ok", "Err" }
    /\ Len(frames) = (IF HasOutbound THEN 5 + Owed ELSE 2)
    /\ \A i \in 1..Len(frames) : frames[i].err = "Ok"
    /\ \A i \in 1..(Len(frames) - 1) :
          frames[i].dir = "read" =>
              /\ Len(frames[i].head) = 6
              /\ HeadStatus(frames[i]).ok
              /\ is_success(HeadStatus(frames[i]).status)
    /\ Kind(frames[Len(frames)]) = "rCMD"
    /\ Len(frames[Len(frames)].head) = 6
    /\ frames[Len(frames)].head[1] = GenericResponseTag
    /\ frames[Len(frames)].head[2] = NoData
    /\ HeadStatus(frames[Len(frames)]).ok

FinalStatus == HeadStatus(frames[Len(frames)]).status

\* C11: for the operations whose result is a status code, a non-success status in
\* the final response is delivered to the caller unchanged as the returned status
\* and is not converted into an UnexpectedStatus error.
C11_StatusDelivered ==
    (FinalStatusRead /\ ~is_success(FinalStatus)) =>
        /\ result.kind = "Ok"
        /\ result.status = FinalStatus

\* what the code does instead: the status comes back as the error UnexpectedStatus
C11_StatusAsError ==
    (FinalStatusRead /\ ~is_success(FinalStatus)) =>
        /\ result.kind = "Err"
        /\ result.err = "UnexpectedStatus"
        /\ result.status = FinalStatus
        /\ result.raw = FinalStatus

\* reset was answered with the status Fail
C11_Reached ==
    /\ FinalStatusRead
    /\ op.name = "reset"
    /\ FinalStatus = Fail


\* read_memory or fuse_read has returned a value
ReadReturned ==
    /\ op.name \in { "read_memory", "fuse_read" }
    /\ pc = <<>>
    /\ result.kind \in { "Ok", "Err" }
    /\ frames # <<>>

\* every frame of the operation was exchanged, the first response is a generic or
\* read-memory response with a known flag, and the last frame read is a CMD
\* response carrying a documented status: that status decides the result
ReadDecided ==
    /\ ReadReturned
    /\ Len(frames) >= 2
    /\ \A i \in 1..Len(frames) : frames[i].err = "Ok"
    /\ Len(frames[2].head) >= 6
    /\ frames[2].head[1] \in { GenericResponseTag, ReadMemoryResponseTag }
    /\ frames[2].head[2] \in { NoData, HasDataPhase }
    /\ Kind(LastOp) = "rCMD"
    /\ Len(LastOp.head) >= 6
    /\ HeadStatus(LastOp).ok

\* the statuses with which the operation in progress returns Ok
Accepted(status) ==
    status = Success \/ (op.name = "read_memory" /\ status = MemoryBlankPageReadDisallowed)

\* C12: read_memory returns Ok only if the status of the response is Success or
\* MemoryBlankPageReadDisallowed, and then returns that status unchanged; for any
\* other documented status s it returns UnexpectedStatus(s, numeric value of s);
\* fuse_read accepts only Success.
C12_ReadStatus ==
    /\ (ReadReturned /\ result.kind = "Ok") =>
          /\ Kind(LastOp) = "rCMD" /\ LastOp.err = "Ok"
          /\ Len(LastOp.head) >= 6
          /\ HeadStatus(LastOp).ok
          /\ Accepted(HeadStatus(LastOp).status)
          /\ result.status = HeadStatus(LastOp).status
    /\ ReadDecided =>
          IF Accepted(HeadStatus(LastOp).status)
          THEN result.kind = "Ok" => result.status = HeadStatus(LastOp).status
          ELSE /\ result.kind = "Err"
               /\ result.err = "UnexpectedStatus"
               /\ result.status = HeadStatus(LastOp).status
               /\ result.raw = HeadStatus(LastOp).status
    /\ (ReadDecided /\ frames[2].head[1] = ReadMemoryResponseTag
           /\ Accepted(HeadStatus(LastOp).status)) => result.kind = "Ok"

\* read_memory returned the bytes of a data phase with the status
\* MemoryBlankPageReadDisallowed
C12_Witness ==
    /\ ReadDecided
    /\ op.name = "read_memory"
    /\ result.kind = "Ok"
    /\ result.status = MemoryBlankPageReadDisallowed
    /\ Len(result.bytes) >= 1

\* fuse_read refused the status MemoryBlankPageReadDisallowed
C12_FuseReadRefuses ==
    /\ ReadDecided
    /\ op.name = "fuse_read"
    /\ HeadStatus(LastOp).status = MemoryBlankPageReadDisallowed
    /\ result.kind = "Err"


\* link operation i is the first of receive_sb_file that failed, in its send phase
\* (MaxPacketSize query, CMD frame, intermediate response, DATA frames)
SbSendError(i) ==
    /\ op.name = "receive_sb_file"
    /\ DataReads = <<>>
    /\ frames[i].err # "Ok"
    /\ \A j \in 1..(i - 1) : frames[j].err = "Ok"
    /\ i < 5 + Owed

\* f is a well-formed generic response without data phase, with a documented status
PlainStatus(f) ==
    /\ f.err = "Ok"
    /\ Len(f.head) = 6
    /\ f.head[1] = GenericResponseTag
    /\ f.head[2] = NoData
    /\ HeadStatus(f).ok

\* after a send phase that ended with Aborted at link operation i the engine reads
\* one further CMD response, and `returned` tells what it returns for it; after any
\* other error it returns that error and reads nothing
AfterSendError(i, returned(_)) ==
    IF frames[i].err = "Aborted"
    THEN \/ i = Len(frames) /\ pc = << "R_STATUS" >>
         \/ /\ Len(frames) = i + 1
            /\ Kind(frames[i + 1]) = "rCMD"
            /\ pc = <<>>
            /\ PlainStatus(frames[i + 1]) => returned(HeadStatus(frames[i + 1]).status)
         \/ /\ Len(frames) >= i + 1
            /\ Kind(frames[i + 1]) = "rCMD"
            /\ Len(frames[i + 1].head) >= 6
            /\ frames[i + 1].head[2] = HasDataPhase
    ELSE /\ i = Len(frames)
         /\ pc = <<>>
         /\ result.kind = "Err"
         /\ result.err = frames[i].err

ReturnsStatus(status) == result.kind = "Ok" /\ result.status = status

ReturnsSuccessOrError(status) ==
    IF status = Success THEN ReturnsStatus(status)
    ELSE /\ result.kind = "Err"
         /\ result.err = "UnexpectedStatus"
         /\ result.status = status

\* C13: in receive_sb_file, when the send phase ends with the error Aborted the
\* engine still reads exactly one further CMD response and returns its status; for
\* any other send-phase error it returns that error without reading a further
\* response.
C13_AbortTolerated ==
    \A i \in 1..Len(frames) : SbSendError(i) => AfterSendError(i, ReturnsStatus)

\* what the code does: the further response is read, and its status is returned
\* only when it is Success
C13_AbortThenResponse ==
    \A i \in 1..Len(frames) : SbSendError(i) => AfterSendError(i, ReturnsSuccessOrError)

\* a DATA frame of receive_sb_file was answered with ACK_ABORT and the further
\* response carried the status Fail
C13_Reached ==
    /\ Len(frames) >= 6
    /\ SbSendError(Len(frames) - 1)
    /\ Kind(frames[Len(frames) - 1]) = "wDATA"
    /\ frames[Len(frames) - 1].err = "Aborted"
    /\ PlainStatus(LastOp)
    /\ HeadStatus(LastOp).status = Fail
    /\ pc = <<>>


\* the payload of a FlashReadOnce command for the low 24 bits of index
ReadOncePayload(index, count) ==
    << FlashReadOnceCode, 0, 0, 2 >> \o U32LE(index % 16777216) \o U32LE(count)

\* the program response of flash_program_once was read: well formed, no data phase
ProgramAnswered ==
    /\ op.name = "flash_program_once"
    /\ Len(frames) >= 2
    /\ frames[1].err = "Ok"
    /\ PlainStatus(frames[2])

\* the read-back was answered by a FlashReadOnce response with status Success
\* carrying one value, and the operation has returned
ReadBackAnswered ==
    /\ ProgramAnswered
    /\ Len(frames) = 4
    /\ frames[3].err = "Ok"
    /\ frames[4].err = "Ok"
    /\ frames[4].head = << FlashReadOnceResponseTag, NoData >> \o U32LE(Success)
    /\ Len(lastRx.payload) = 12
    /\ pc = <<>>

\* the value the read-back response carried
read_value == FromLE32(SubSeq(lastRx.payload, 9, 12))

\* C14: flash_program_once with verify = true and a Success program response sends
\* exactly one FlashReadOnce (index masked to its low 24 bits) after the program
\* response was read, and returns the status OtpVerifyFail if and only if
\* (read_value AND data) != data, otherwise the program status; the verification
\* failure is a returned status, not an error; with verify = false, or when the
\* program response is not Success, no read-back command is sent.
C14_ProgramOnceVerify ==
    ProgramAnswered =>
        IF op.verify /\ HeadStatus(frames[2]).status = Success
        THEN /\ Len(CmdWrites) <= 2
             /\ Len(frames) = 2 => pc = << "W_FRO", "R_FROV" >>
             /\ Len(frames) >= 3 =>
                   /\ Kind(frames[3]) = "wCMD"
                   /\ frames[3].payload = ReadOncePayload(op.a, op.b)
             /\ ReadBackAnswered =>
                   /\ result.kind = "Ok"
                   /\ result.status = OtpVerifyFail <=> BitAnd(read_value, op.c) # op.c
                   /\ result.status # OtpVerifyFail => result.status = Success
        ELSE /\ Len(frames) = 2
             /\ pc = <<>>

\* a verification that failed, and one that passed on a value other than data
C14_Witness ==
    /\ ReadBackAnswered
    /\ op.verify
    /\ op.c = 1
    /\ read_value = 0
    /\ result.status = OtpVerifyFail

C14_PassedOnSuperset ==
    /\ ReadBackAnswered
    /\ op.verify
    /\ read_value # op.c
    /\ result.status = Success


\* the last link operation read a CMD response whose header is well formed: a known
\* flag, and parameters that are whole words
ResponseRead ==
    /\ frames # <<>>
    /\ Kind(LastOp) = "rCMD"
    /\ LastOp.err = "Ok"
    /\ Len(lastRx.payload) >= 8
    /\ lastRx.payload[2] \in { NoData, HasDataPhase }
    /\ (Len(lastRx.payload) - 8) % 4 = 0

\* the raw status word of the response read last
RawStatus == FromLE32(SubSeq(lastRx.payload, 5, 8))

\* C15: for every status value v received in a CMD response that is not one of the
\* documented status codes the operation returns UnexpectedStatus(UnknownStatusCode,
\* v) with v exactly the received raw value; for every documented value the typed
\* status is the matching named variant.
C15_StatusTyping ==
    ResponseRead =>
        IF RawStatus \notin StatusCodes
        THEN /\ pc = <<>>
             /\ result = UnexpectedStatus(UnknownStatusCode, RawStatus)
        ELSE /\ (pc = <<>> /\ result.kind = "Err" /\ result.err = "UnexpectedStatus") =>
                   /\ result.status = RawStatus
                   /\ result.raw = RawStatus
             /\ (pc = <<>> /\ result.kind = "Ok" /\ op.name # "flash_program_once") =>
                   result.status = RawStatus

\* an undocumented status arrived in a first response, and one in the response that
\* closes a data phase
C15_Witness ==
    /\ ResponseRead
    /\ RawStatus \notin StatusCodes
    /\ Len(frames) = 2
    /\ result = UnexpectedStatus(UnknownStatusCode, RawStatus)

C15_UnknownFinalStatus ==
    /\ ResponseRead
    /\ RawStatus \notin StatusCodes
    /\ DataReads # <<>>
    /\ result = UnexpectedStatus(UnknownStatusCode, RawStatus)

C15_TypedStatus ==
    /\ ResponseRead
    /\ pc = <<>>
    /\ RawStatus = MemoryBlankPageReadDisallowed
    /\ result.kind = "Ok"
    /\ result.status = MemoryBlankPageReadDisallowed


\* the operation returned the error Aborted
ReturnedAborted == pc = <<>> /\ result = ErrResult("Aborted")

\* C16: after any operation returns the error Aborted (a zero-length CMD frame was
\* received, or the device answered a write with ACK_ABORT) the session remains
\* valid: mask_read_data_phase is what it is on a fresh session, so that the next
\* command is sent and its response interpreted exactly as on a fresh session.
C16_AbortKeepsSession ==
    ReturnedAborted => mask_read_data_phase = FALSE

\* an operation other than key_provisioning returned Aborted after a zero-length CMD
\* frame, the session as fresh
C16_Reached ==
    /\ ReturnedAborted
    /\ op.name = "reset"
    /\ Kind(LastOp) = "rCMD"
    /\ ~mask_read_data_phase


\* the last link operation delivered a CMD payload (its CRC was valid)
CmdDelivered ==
    /\ frames # <<>>
    /\ Kind(LastOp) = "rCMD"
    /\ LastOp.err = "Ok"

\* the payload is shorter than the 8 bytes of tag, flag, reserved, count and status
ShortResponse == CmdDelivered /\ Len(lastRx.payload) < 8

\* a first response flagged HasDataPhase that carries no length word, read while the
\* data phase is not masked
NoLengthWord ==
    /\ CmdDelivered
    /\ DataReads = <<>>
    /\ InboundOpen = FALSE
    /\ ~mask_read_data_phase
    /\ Len(lastRx.payload) \in 8..11
    /\ lastRx.payload[2] = HasDataPhase
    /\ HeadStatus(LastOp).ok

UnknownFlag ==
    /\ CmdDelivered
    /\ Len(lastRx.payload) >= 8
    /\ lastRx.payload[2] \notin { NoData, HasDataPhase }

\* C17: for every CRC-valid CMD frame the device can send as a response, including
\* a payload shorter than 8 bytes, a HasDataPhase response that carries no length
\* word, an unknown flag byte and a final status frame shorter than 8 bytes, the
\* engine operation returns an error value and never panics.
C17_MalformedIsError ==
    (ShortResponse \/ NoLengthWord \/ UnknownFlag) =>
        /\ pc = <<>>
        /\ result.kind = "Err"

\* what the code does: an unknown flag is InvalidData, the three short forms end
\* the operation in a panic (slice index out of range)
C17_ShortPanics ==
    /\ UnknownFlag => pc = <<>> /\ result = ErrResult("InvalidData")
    /\ (ShortResponse \/ NoLengthWord) => pc = <<>> /\ result = PanicResult

\* a final status frame shorter than 8 bytes after a data phase
C17_Reached ==
    /\ ShortResponse
    /\ DataReads # <<>>
    /\ result = PanicResult

C17_FlagRefused ==
    /\ UnknownFlag
    /\ result = ErrResult("InvalidData")


C17_NoLengthWordPanics ==
    /\ NoLengthWord
    /\ result = PanicResult


\* get_property read a well-formed GetProperty response with status Success
PropertyAnswered ==
    /\ op.name = "get_property"
    /\ Len(frames) = 2
    /\ frames[1].err = "Ok"
    /\ CmdDelivered
    /\ Len(lastRx.payload) >= 8
    /\ (Len(lastRx.payload) - 8) % 4 = 0
    /\ lastRx.payload[1] = GetPropertyResponseTag
    /\ lastRx.payload[2] = NoData
    /\ RawStatus = Success

\* the words of the response read last
response_words == Words(Drop(lastRx.payload, 8))

\* the word lists get_property has no value for
NoPropertyValue ==
    \/ op.a \in { FuseLockedStatusTag, LastErrorTag }
    \/ op.a # UniqueDeviceIdTag /\ response_words = <<>>
    \/ op.a = ReservedRegionsTag
          /\ (Len(response_words) < 2 \/ Len(response_words) % 2 # 0)
    \/ op.a \in { CRCCheckStatusTag, QSPIInitStatusTag, ReliableUpdateStatusTag }
          /\ response_words # <<>> /\ response_words[1] \notin StatusCodes

\* C18: get_property returns a result value and never panics, for every property
\* tag and every list of response words: for FuseLockedStatus and LastError, for an
\* empty word list, for a ReservedRegions list shorter than 2 words or of odd
\* length, and for an unrecognised status value in CRCCheckStatus, QSPIInitStatus or
\* ReliableUpdateStatus it returns an error.
C18_GetPropertyTotal ==
    PropertyAnswered =>
        /\ pc = <<>>
        /\ result.kind \in { "Ok", "Err" }
        /\ NoPropertyValue => result.kind = "Err"

\* what the code does: a value where the words can be parsed, a panic where not
C18_GetPropertyPanics ==
    PropertyAnswered =>
        /\ pc = <<>>
        /\ result.kind = (IF NoPropertyValue THEN "Panic" ELSE "Ok")

\* the cases of the claim, each ending in a panic
C18_Reached ==
    /\ PropertyAnswered
    /\ op.a = FuseLockedStatusTag
    /\ response_words # <<>>
    /\ result = PanicResult

C18_EmptyWords ==
    PropertyAnswered /\ op.a = CurrentVersionTag /\ response_words = <<>> /\ result = PanicResult

C18_OddRegions ==
    PropertyAnswered /\ op.a = ReservedRegionsTag /\ Len(response_words) = 3
        /\ result = PanicResult

C18_ShortRegions ==
    PropertyAnswered /\ op.a = ReservedRegionsTag /\ Len(response_words) = 1
        /\ result = PanicResult

C18_UnknownCrcStatus ==
    PropertyAnswered /\ op.a = CRCCheckStatusTag /\ response_words = << 77 >>
        /\ result = PanicResult

\* well-formed values are returned
C18_RegionsParsed ==
    PropertyAnswered /\ op.a = ReservedRegionsTag /\ Len(response_words) = 2
        /\ result.kind = "Ok"

C18_DeviceIdEmpty ==
    PropertyAnswered /\ op.a = UniqueDeviceIdTag /\ response_words = <<>> /\ result.kind = "Ok"


\* the last link operation read the first response of a command
FirstResponse ==
    /\ CmdDelivered
    /\ Len(frames) >= 2
    /\ frames[Len(frames) - 1].dir = "write"
    /\ Len(lastRx.payload) >= 8

\* the parameter bytes of the response read last (what follows the status word) and
\* its declared paramCount byte
ParamBytes == Len(lastRx.payload) - 8

ParamCount == lastRx.payload[4]

\* the declared count matches the parameters, counted with or without the status
CountMatches == ParamBytes = 4 * ParamCount \/ ParamBytes + 4 = 4 * ParamCount

RejectedInvalidData == pc = <<>> /\ result = ErrResult("InvalidData")

\* C19: the response header parser rejects with InvalidData every CMD response in
\* which the number of parameter bytes is not a multiple of 4, and every CMD response
\* in which parameter bytes / 4 differs from the declared paramCount byte; only
\* responses satisfying both conditions are accepted.
C19_HeaderChecked ==
    FirstResponse => ((ParamBytes % 4 # 0 \/ ~CountMatches) => RejectedInvalidData)

\* what the code does: parameters that are not whole words are rejected, the
\* declared count decides nothing
C19_WholeWordsOnly ==
    FirstResponse => (ParamBytes % 4 # 0 => RejectedInvalidData)

\* a response with a wrong paramCount is accepted and the operation returns Ok
C19_Reached ==
    /\ FirstResponse
    /\ ParamBytes % 4 = 0
    /\ ~CountMatches
    /\ pc = <<>>
    /\ result.kind = "Ok"

C19_OddBytesRefused ==
    /\ FirstResponse
    /\ ParamBytes % 4 # 0
    /\ RejectedInvalidData


\* what a two-byte pair read after a write stands for
PairClass(pair) ==
    CASE pair = << START, ACK >> -> "Ok"
      [] pair = << START, NACK >> -> "NACKSent"
      [] pair = << START, ACK_ABORT >> -> "Aborted"
      [] OTHER -> "InvalidHeader"

\* write i on UART read at most one pair and returned what the pair stands for, or
\* Timeout when no pair came
PairDecides(i) ==
    /\ Len(AckReads(frames[i])) <= 1
    /\ frames[i].err = (IF AckReads(frames[i]) = <<>> THEN "Timeout"
                        ELSE PairClass(AckReads(frames[i])[1].bytes))

\* after link operation i nothing is written any more
NothingWrittenAfter(i) ==
    \A j \in (i + 1)..Len(frames) : frames[j].dir = "read"

\* the operation ended at link operation i with its error
EndsWith(i) ==
    /\ i = Len(frames)
    /\ pc = <<>>
    /\ result = ErrResult(frames[i].err)

\* C20: on UART, after writing a frame the link reads a two-byte pair and
\* classifies it: 5A A1 gives Ok, 5A A2 gives NACKSent, 5A A3 gives Aborted, a first
\* byte other than 5A or any other kind byte gives InvalidHeader; if no pair is read
\* before the timeout it returns Timeout; in every non-Ok case the frame is not
\* retransmitted and the current command ends with that error.
C20_AckClassified ==
    transport = "uart" =>
        \A i \in 1..Len(frames) :
            frames[i].dir = "write" =>
                /\ PairDecides(i)
                /\ frames[i].err # "Ok" => EndsWith(i)

\* C20 amended: the same, except that receive_sb_file whose frame was answered with
\* 5A A3 does not end with Aborted: it writes nothing more and goes on to read the
\* response of the device.
C20_AckClassifiedButSbFile ==
    transport = "uart" =>
        \A i \in 1..Len(frames) :
            frames[i].dir = "write" =>
                /\ PairDecides(i)
                /\ frames[i].err # "Ok" =>
                      IF op.name = "receive_sb_file" /\ frames[i].err = "Aborted"
                      THEN /\ NothingWrittenAfter(i)
                           /\ i = Len(frames) => pc = << "R_STATUS" >>
                      ELSE EndsWith(i)

\* a frame written on UART was answered with a pair whose first byte is not 5A, and
\* the operation ended with InvalidHeader
C20_Witness ==
    /\ transport = "uart"
    /\ frames # <<>>
    /\ LastOp.dir = "write"
    /\ AckReads(LastOp) # <<>>
    /\ AckReads(LastOp)[1].bytes = << 51, ACK >>
    /\ EndsWith(Len(frames))
    /\ result = ErrResult("InvalidHeader")

C20_TimedOut ==
    /\ transport = "uart"
    /\ frames # <<>>
    /\ LastOp.dir = "write"
    /\ AckReads(LastOp) = <<>>
    /\ result = ErrResult("Timeout")

\* receive_sb_file read a response after its DATA frame was answered with 5A A3
C20_SbFileGoesOn ==
    /\ transport = "uart"
    /\ op.name = "receive_sb_file"
    /\ Len(frames) >= 2
    /\ Kind(frames[Len(frames) - 1]) = "wDATA"
    /\ frames[Len(frames) - 1].err = "Aborted"
    /\ Kind(LastOp) = "rCMD"


\* the last link operation was a write on I2C
I2CWrite ==
    /\ transport = "i2c"
    /\ frames # <<>>
    /\ LastOp.dir = "write"

\* C21: on I2C a two-byte acknowledgment read whose first byte is 00 (device busy) or
\* any other value than 5A never ends the wait and never surfaces as an error or as
\* a success: polling continues, and if only such pairs arrive until the timeout
\* elapses the write returns Timeout.
C21_BusySkipped ==
    I2CWrite =>
        LET acks == AckReads(LastOp)
        IN  /\ \A k \in 1..Len(acks) :
                  acks[k].bytes[1] # START => (k < Len(acks) \/ LastOp.err = "Timeout")
            /\ LastOp.err # "InvalidHeader"
            /\ (\A k \in 1..Len(acks) : acks[k].bytes[1] # START) => LastOp.err = "Timeout"
            /\ LastOp.err \in { "Ok", "NACKSent", "Aborted" } =>
                  /\ acks # <<>>
                  /\ PairClass(acks[Len(acks)].bytes) = LastOp.err

\* a busy pair and a foreign pair were read, then the timeout elapsed
C21_Witness ==
    /\ I2CWrite
    /\ Len(AckReads(LastOp)) = 2
    /\ AckReads(LastOp)[1].bytes = << 0, 0 >>
    /\ AckReads(LastOp)[2].bytes = << 51, ACK >>
    /\ LastOp.err = "Timeout"

\* a busy pair was skipped and the refusal after it reported
C21_NackAfterBusy ==
    /\ I2CWrite
    /\ Len(AckReads(LastOp)) = 2
    /\ AckReads(LastOp)[1].bytes = << 0, 0 >>
    /\ LastOp.err = "NACKSent"


\* the last link operation was a read that returned a payload
PayloadReturned ==
    /\ frames # <<>>
    /\ LastOp.dir = "read"
    /\ LastOp.err = "Ok"
    /\ lastRx.err = "Ok"

\* the frame or report the device sent has the type the read asked for
ExpectedTypeReceived ==
    IF transport = "usb"
    THEN Len(lastRx.d.report) >= 1 /\ lastRx.d.report[1] = ReportId(LastOp.type)
    ELSE lastRx.d.hdr = << START, LastOp.type >>

\* C22: on every transport read_packet_raw(expectedType) returns a payload only when
\* the received frame or report has the expected type (CMD versus DATA); a frame of
\* the other type is rejected with an error and its payload is never returned.
C22_TypeChecked == PayloadReturned => ExpectedTypeReceived

\* what the code does: UART and I2C check the type byte, USB-HID does not
C22_SerialTypeChecked ==
    (PayloadReturned /\ transport # "usb") => ExpectedTypeReceived

\* on UART a frame of the other type was refused with InvalidHeader
C22_Reached ==
    /\ transport = "uart"
    /\ frames # <<>>
    /\ LastOp.dir = "read"
    /\ lastRx.d.hdr = << START, OtherType(LastOp.type) >>
    /\ LastOp.err = "InvalidHeader"

\* on USB-HID a DATA report was returned to a read that asked for a CMD frame
C22_ForeignReportReturned ==
    /\ transport = "usb"
    /\ PayloadReturned
    /\ LastOp.type = CMD
    /\ lastRx.d.report[1] = DATA_IN
    /\ lastRx.payload # <<>>


\* load_image returned Success
ImageLoaded == pc = <<>> /\ result = OkResult(Success, <<>>, <<>>)

\* every link operation so far succeeded and the DATA frames carried the whole input
AllDataWritten ==
    /\ \A i \in 1..Len(frames) : frames[i].err = "Ok"
    /\ DataSent = op.bytes

AllWritesOk ==
    /\ \A i \in 1..Len(frames) : frames[i].dir = "write" => frames[i].err = "Ok"
    /\ DataSent = op.bytes

C23_EmptyImage ==
    /\ op.name = "load_image"
    /\ ImageLoaded
    /\ op.bytes = <<>>
    /\ DataWrites = <<>>


\* the command whose CMD frame is the k-th the operation in progress writes
CommandWritten(k) ==
    IF HasOutbound THEN (IF k = 1 THEN GetMaxPacketSize ELSE op)
    ELSE (IF k = 1 THEN op ELSE ReadBack(op))

\* the flag byte of the k-th CMD frame says HasDataPhase exactly when its command
\* carries data-phase bytes
FlagTellsBytes(k) ==
    (CmdWrites[k].payload[2] = HasDataPhase) <=> to_params(CommandWritten(k))[2].some

\* C24: for every command the engine sends, the flag byte of its CMD frame is
\* HasDataPhase (1) if and only if the command carries data-phase bytes: in
\* particular the CMD frames of key_provisioning SetUserKey and WriteKeyStore have
\* the flag set, and every command without bytes has flag NoData (0).
C24_FlagIffBytes ==
    \A k \in 1..Len(CmdWrites) : FlagTellsBytes(k)

\* what the code does: the property holds for every operation but key_provisioning,
\* whose CMD frame always has flag NoData
C24_FlagButKeyProv ==
    \A k \in 1..Len(CmdWrites) :
        IF op.name = "key_provisioning" /\ CommandWritten(k) = op
        THEN CmdWrites[k].payload[2] = NoData
        ELSE FlagTellsBytes(k)

\* the CMD frame of key_provisioning SetUserKey was written with flag NoData, its
\* key bytes following in DATA frames
C24_Reached ==
    /\ op.name = "key_provisioning"
    /\ op.sub = "SetUserKey"
    /\ Len(CmdWrites) = 2
    /\ CmdWrites[2].payload[1] = KeyProvisioningCode
    /\ CmdWrites[2].payload[2] = NoData
    /\ DataWrites # <<>>

C24_WriteMemoryFlagged ==
    /\ op.name = "write_memory"
    /\ Len(CmdWrites) = 2
    /\ CmdWrites[2].payload[2] = HasDataPhase
    /\ DataWrites # <<>>

\* the codec's last call built a command frame
CommandFrameBuilt == frames # <<>> /\ frames[1].call \in { "construct_frame", "command" }

\* the frame layout written out byte by byte for n parameter words
CommandFrameLayout(command_code, flag, params) ==
    LET n       == Len(params)
        payload == << command_code, flag, 0, n >>
                       \o Concat([i \in 1..n |->
                                     << params[i] % 256, (params[i] \div 256) % 256,
                                        (params[i] \div 65536) % 256,
                                        (params[i] \div 16777216) % 256 >>])
        head    == << 90, 164, (4 + 4 * n) % 256, (4 + 4 * n) \div 256 >>
        crc     == CRC_CHECK(head \o payload)
    IN  head \o << crc % 256, crc \div 256 >> \o payload

\* C25: for every command code, flag and parameter list of n words the CMD frame
\* handed to the link is 5A, A4, the length 4 + 4n little-endian, the CRC-16/XMODEM
\* of (5A, A4, length bytes, payload) little-endian, then code, flag, 00, n and each
\* parameter as 4 bytes little-endian in order; a serial link transmits exactly these
\* bytes; GetProperty(CurrentVersion, 0) gives 5A A4 0C 00 4B 33 07 00 00 02 01 00
\* 00 00 00 00 00 00 and FlashProgramOnce(0x51, 4, 0x12345678) the frame of its test.
C25_CommandFrame ==
    CommandFrameBuilt =>
        LET f == frames[1]
        IN  /\ f.packet = CommandFrameLayout(f.code, f.flag, f.params)
            /\ transport # "usb" => f.out.ev[1] = Tx("frame", f.packet)
            /\ f.cmd = Cmd("get_property", "", CurrentVersionTag, 0, 0, <<>>, FALSE)
                  => f.packet = << 90, 164, 12, 0, 75, 51, 7, 0, 0, 2, 1, 0, 0, 0, 0, 0, 0, 0 >>
            /\ f.cmd = Cmd("flash_program_once", "", 81, 4, 305419896, <<>>, FALSE)
                  => f.packet = << 90, 164, 16, 0, 27, 96, 14, 0, 0, 3, 81, 0, 0, 0, 4, 0, 0, 0,
                                   120, 86, 52, 18 >>

\* GetProperty(CurrentVersion, 0) was built and written to a serial link
C25_Witness ==
    /\ CommandFrameBuilt
    /\ transport = "uart"
    /\ frames[1].cmd = Cmd("get_property", "", CurrentVersionTag, 0, 0, <<>>, FALSE)
    /\ frames[1].out.err = "Ok"
    /\ frames[1].out.ev[1].bytes[5] = 75

\* a frame with the data-phase flag and as many parameter words as the model builds
C25_FlaggedFrame ==
    /\ CommandFrameBuilt
    /\ frames[1].call = "construct_frame"
    /\ frames[1].flag = HasDataPhase
    /\ Len(frames[1].params) = MaxParams
    /\ frames[1].params[1] = 305419896
    /\ Len(frames[1].packet) = 10 + 4 * MaxParams

\* the codec's last call fed a constructed frame of type t to a serial frame reader
\* that expects type t
RoundTrip ==
    /\ frames # <<>>
    /\ frames[1].call = "read"
    /\ transport \in { "uart", "i2c" }
    /\ frames[1].code = frames[1].flag

\* C26: for every frame type t in {CMD, DATA} and every payload p of 1 to 65535
\* bytes, the UART/I2C frame reader that expects type t and is fed the bytes of
\* construct_header(t, p) returns exactly p: the CRC construct emits validates.
C26_RoundTrip ==
    RoundTrip =>
        /\ frames[1].out.err = "Ok"
        /\ frames[1].out.payload = frames[1].params

\* the long payload, whose length needs both length bytes, came back from an I2C read
C26_Witness ==
    /\ RoundTrip
    /\ transport = "i2c"
    /\ frames[1].code = DATA_PHASE_CODE
    /\ frames[1].params = LongPayload
    /\ frames[1].packet[4] = 1
    /\ frames[1].out.payload = LongPayload

\* a one-byte CMD payload came back from a UART read
C26_ShortPayload ==
    /\ RoundTrip
    /\ transport = "uart"
    /\ frames[1].code = CMD
    /\ Len(frames[1].params) = 1
    /\ frames[1].out.err = "Ok"

\* a reader that expects the other type refuses the frame
C26_OtherTypeRefused ==
    /\ frames # <<>>
    /\ frames[1].call = "read"
    /\ transport = "uart"
    /\ frames[1].code # frames[1].flag
    /\ frames[1].out.err = "InvalidHeader"

\* the session's open call pinged the device
Pinged == frames # <<>> /\ frames[1].out.tx # <<>>

\* the start byte is at position k of the stream and nowhere before it
StartAt(s, k) == k <= Len(s) /\ s[k] = 90 /\ \A j \in 1..(k - 1) : s[j] # 90

\* C27: the ping of UART and I2C writes 5A A6, then reads single bytes until one is
\* 5A, at most 50 of them: 50 bytes without 5A give InvalidHeader; a byte other
\* than A7 after the 5A gives InvalidHeader; a trailing CRC that differs from the
\* CRC-16/XMODEM of the first 8 bytes gives InvalidCrc; otherwise ping returns the
\* version and the options parsed from the response.  (A stream that ends before
\* the bytes ping asks for is an I/O error.)
C27_PingHandshake ==
    Pinged =>
        LET s == frames[1].stream
            r == frames[1].out
        IN  /\ r.tx = << 90, 166 >>
            /\ r.searched <= 50
            /\ (Len(s) >= 50 /\ \A j \in 1..50 : s[j] # 90) => r.err = "InvalidHeader"
            /\ \A k \in 1..50 :
                  StartAt(s, k) =>
                      /\ r.searched = k
                      /\ (Len(s) > k /\ s[k + 1] # 167) => r.err = "InvalidHeader"
                      /\ (Len(s) >= k + 9 /\ s[k + 1] = 167) =>
                            LET first8 == << 90, 167 >> \o SubSeq(s, k + 2, k + 7)
                                crc    == s[k + 8] + 256 * s[k + 9]
                            IN  IF CRC_CHECK(first8) # crc
                                THEN r.err = "InvalidCrc"
                                ELSE /\ r.err = "Ok"
                                     /\ r.version = s[k + 2] * 16777216 + s[k + 3] * 65536
                                                      + s[k + 4] * 256 + s[k + 5]
                                     /\ r.options = s[k + 6] + 256 * s[k + 7]
                      /\ (Len(s) = k \/ (Len(s) < k + 9 /\ s[k + 1] = 167)) => r.err = "IOError"
            /\ (Len(s) < 50 /\ \A j \in 1..Len(s) : s[j] # 90) => r.err = "IOError"

\* the start byte was the 50th byte read and the ping succeeded
C27_Witness ==
    /\ Pinged
    /\ transport = "i2c"
    /\ frames[1].out.searched = 50
    /\ frames[1].out.err = "Ok"
    /\ frames[1].out.version = 196944

\* 50 bytes without a start byte, the response behind them
C27_SearchGivenUp ==
    /\ Pinged
    /\ transport = "uart"
    /\ Len(frames[1].stream) = 60
    /\ frames[1].stream[51] = 90
    /\ frames[1].out.err = "InvalidHeader"

\* a response whose CRC field is off by one
C27_BadCrc ==
    /\ Pinged
    /\ frames[1].stream = << 90, 167, 0, 3, 1, 80, 0, 0, 252, 64 >>
    /\ frames[1].out.err = "InvalidCrc"

\* another frame type after the start byte
C27_BadType ==
    /\ Pinged
    /\ frames[1].stream = << 0, 90, 164, 0, 3, 1, 80, 0, 0, 251, 64 >>
    /\ frames[1].out.err = "InvalidHeader"

\* the device answered the ping with 14 bytes laid out like a CMD frame: 5A A7,
\* length 8, a CRC field, then 00 00, version 00 03 01 50, options 00 00
FramedResponseSent ==
    /\ Pinged
    /\ Len(frames[1].stream) = 14
    /\ SubSeq(frames[1].stream, 1, 4) = << 90, 167, 8, 0 >>
    /\ SubSeq(frames[1].stream, 7, 14) = << 0, 0, 0, 3, 1, 80, 0, 0 >>

C28_FramedRefused ==
    /\ FramedResponseSent
    /\ SubSeq(frames[1].stream, 5, 6) = << 220, 113 >>
    /\ frames[1].out.err = "InvalidCrc"

\* the one framed response ping accepts is read as version 0x080051BC
C28_FramedMisread ==
    /\ FramedResponseSent
    /\ frames[1].out.err = "Ok"
    /\ frames[1].out.version = 134238652

\* options other than zero, little-endian
C28_Options ==
    /\ Pinged
    /\ frames[1].out.err = "Ok"
    /\ frames[1].out.options = 258
    /\ frames[1].out.version = 16908363

\* the session's link was opened after a successful ping
PingSucceeded ==
    /\ frames[1].call = "open"
    /\ frames[1].out.tx = << 90, 166 >>
    /\ frames[1].out.err = "Ok"

\* a CMD or DATA frame was written on the session
FrameWritten == \E i \in 1..Len(frames) : frames[i].call = "write"

C29_UsbWithoutPing ==
    /\ Len(frames) >= 2
    /\ transport = "usb"
    /\ frames[1].out.tx = <<>>
    /\ frames[2].call = "write"
    /\ frames[2].err = "Ok"

\* the ping failed and no link was returned
C29_NoLink ==
    /\ frames # <<>>
    /\ transport = "i2c"
    /\ frames[1].out.err = "InvalidCrc"
    /\ ~frames[1].link

\* the codec's last call handed a frame to the USB-HID link
UsbWrite ==
    /\ frames # <<>>
    /\ transport = "usb"
    /\ frames[1].call \in { "write", "construct_frame", "command" }

\* what the frame says about itself
HasHeader(f) == Len(f) >= 6 /\ f[1] = 90

DeclaredLen(f) == f[3] + 256 * f[4]

\* C30: on USB-HID write_packet_raw given 5A t lenLo lenHi crc crc data with t in
\* {A4, A5} and at least len data bytes writes exactly one report
\* [reportId, 00, lenLo, lenHi, data[0..len]], reportId 01 for CMD and 02 for DATA,
\* without the CRC bytes; a frame shorter than 6 bytes, not starting with 5A or of
\* another type yields InvalidHeader, a frame shorter than 6 + len bytes
\* InvalidData (a frame that is both of another type and too short yields one of
\* the two), and then nothing is written.
C30_UsbReport ==
    UsbWrite =>
        LET f   == frames[1].packet
            out == frames[1].out
        IN  IF ~HasHeader(f)
            THEN out.err = "InvalidHeader" /\ out.ev = <<>>
            ELSE IF f[2] \in { 164, 165 } /\ Len(f) >= 6 + DeclaredLen(f)
            THEN /\ out.err = "Ok"
                 /\ out.ev = << Tx("report", << (IF f[2] = 164 THEN 1 ELSE 2), 0, f[3], f[4] >>
                                                \o SubSeq(f, 7, 6 + DeclaredLen(f))) >>
            ELSE /\ out.ev = <<>>
                 /\ f[2] \in { 164, 165 } => out.err = "InvalidData"
                 /\ Len(f) >= 6 + DeclaredLen(f) => out.err = "InvalidHeader"
                 /\ out.err \in { "InvalidHeader", "InvalidData" }

\* a DATA frame with a byte beyond its declared length: the report carries the
\* declared bytes only
C30_Witness ==
    /\ UsbWrite
    /\ frames[1].call = "write"
    /\ HasHeader(frames[1].packet)
    /\ frames[1].packet[2] = 165
    /\ DeclaredLen(frames[1].packet) = MaxLen
    /\ Len(frames[1].packet) = 7 + MaxLen
    /\ frames[1].out.err = "Ok"
    /\ Len(frames[1].out.ev) = 1
    /\ frames[1].out.ev[1].bytes[1] = 2
    /\ Len(frames[1].out.ev[1].bytes) = 4 + MaxLen

\* a CMD frame built by construct_frame goes out as a report with id 01
C30_CommandReport ==
    /\ UsbWrite
    /\ frames[1].call = "command"
    /\ frames[1].out.err = "Ok"
    /\ frames[1].out.ev[1].bytes[1] = 1
    /\ Len(frames[1].out.ev[1].bytes) = Len(frames[1].packet) - 2

\* a frame that lost its last byte
C30_TooShort ==
    /\ UsbWrite
    /\ HasHeader(frames[1].packet)
    /\ frames[1].packet[2] = 164
    /\ frames[1].out.err = "InvalidData"

\* a complete frame of another type
C30_OtherType ==
    /\ UsbWrite
    /\ HasHeader(frames[1].packet)
    /\ frames[1].packet[2] = 166
    /\ Len(frames[1].packet) = 6 + DeclaredLen(frames[1].packet)
    /\ frames[1].out.err = "InvalidHeader"

\* fewer than 6 bytes, and another start byte
C30_NoHeader ==
    /\ UsbWrite
    /\ Len(frames[1].packet) >= 6
    /\ frames[1].packet[1] = 0
    /\ frames[1].out.err = "InvalidHeader"

\* a USB-HID read received a report of at least 4 bytes
UsbReportRead ==
    /\ transport = "usb"
    /\ frames # <<>>
    /\ LastOp.dir = "read"
    /\ lastRx.d.io = 0
    /\ Len(lastRx.d.report) >= 4

\* the length a report declares, and the data bytes that arrived with it
DeclaredLength == lastRx.d.report[3] + 256 * lastRx.d.report[4]

ReceivedData == Drop(lastRx.d.report, 4)

\* C31: on USB-HID read_packet_raw returns data[0..declaredLen] of every report
\* received, also when declaredLen exceeds the bytes received (no panic, no bytes
\* beyond the received report); it returns Aborted when the declared length of a
\* CMD-in report is zero; and it writes nothing to the device.
C31_DeclaredSlice ==
    UsbReportRead =>
        /\ \A i \in 1..Len(LastOp.ev) : LastOp.ev[i].e # "tx"
        /\ lastRx.err # "Panic"
        /\ (DeclaredLength = 0 /\ lastRx.d.report[1] = CMD_IN) => lastRx.err = "Aborted"
        /\ DeclaredLength > 0 =>
              /\ lastRx.err = "Ok"
              /\ lastRx.payload = Take(ReceivedData, DeclaredLength)

\* what the code does: a declared length within the report gives the declared
\* slice; a CMD-in report that declares more than arrived gives the declared number
\* of bytes, zeros of the receive buffer after the received ones, and a panic when
\* the slice would end beyond the buffer; a DATA-in report that declares more than
\* arrived gives the received bytes; a zero length gives Aborted; nothing is written
C31_BufferSlice ==
    UsbReportRead =>
        /\ \A i \in 1..Len(LastOp.ev) : LastOp.ev[i].e # "tx"
        /\ DeclaredLength = 0 => lastRx.err = "Aborted"
        /\ (DeclaredLength > 0 /\ DeclaredLength <= Len(ReceivedData)) =>
              lastRx.err = "Ok" /\ lastRx.payload = Take(ReceivedData, DeclaredLength)
        /\ (DeclaredLength > Len(ReceivedData) /\ lastRx.d.report[1] = CMD_IN) =>
              IF 4 + DeclaredLength > MAX_PACKET_SIZE THEN lastRx.err = "Panic"
              ELSE /\ lastRx.err = "Ok"
                   /\ Len(lastRx.payload) = DeclaredLength
                   /\ Take(lastRx.payload, Len(ReceivedData)) = ReceivedData
                   /\ \A i \in (Len(ReceivedData) + 1)..DeclaredLength : lastRx.payload[i] = 0
        /\ (DeclaredLength > Len(ReceivedData) /\ lastRx.d.report[1] = DATA_IN) =>
              lastRx.err = "Ok" /\ lastRx.payload = ReceivedData

\* a CMD-in report declaring one byte more than it carries: a zero is appended
C31_PaddedWithZero ==
    /\ UsbReportRead
    /\ lastRx.d.report[1] = CMD_IN
    /\ DeclaredLength = Len(ReceivedData) + 1
    /\ lastRx.err = "Ok"
    /\ Len(lastRx.payload) = DeclaredLength
    /\ lastRx.payload[DeclaredLength] = 0

\* a CMD-in report declaring more bytes than the receive buffer holds
C31_SlicePanics ==
    /\ UsbReportRead
    /\ lastRx.d.report[1] = CMD_IN
    /\ DeclaredLength = 1021
    /\ lastRx.err = "Panic"

\* a well-formed DATA-in report: the declared slice
C31_Reached ==
    /\ UsbReportRead
    /\ lastRx.d.report[1] = DATA_IN
    /\ DeclaredLength = Len(ReceivedData)
    /\ DeclaredLength = MaxSize
    /\ lastRx.err = "Ok"
    /\ lastRx.payload = ReceivedData

\* the decoder of AvailableCommands was run on a response word
AvailableDecoded == frames # <<>> /\ frames[1].call = "available_commands"

\* bit k (0..31) of a word given as its little-endian bytes
BitOf(word, k) == (word[(k \div 8) + 1] \div (2 ^ (k % 8))) % 2 = 1

\* C32: for the AvailableCommands property with response word w, a command with
\* code c (1 <= c <= 0x9F) is in the decoded set if and only if bit c-1 of w is
\* set, for every 32-bit w; the bit mask never overflows or panics for any command
\* code of the closed command set; codes 0 and from 0xA0 on are never in the set.
C32_AvailableCommands ==
    AvailableDecoded =>
        /\ ~frames[1].out.panic
        /\ \A c \in CommandTagDiscriminants :
              c \in frames[1].out.commands
                  <=> (1 <= c /\ c <= 159 /\ c - 1 <= 31 /\ BitOf(frames[1].word, c - 1))
        /\ frames[1].out.commands \subseteq CommandTagDiscriminants

\* the word with bit 31 alone set decodes to EL2GO (0x20) alone, in a build with
\* overflow checks
C32_Witness ==
    /\ AvailableDecoded
    /\ frames[1].overflow_checks
    /\ frames[1].word = << 0, 0, 0, 128 >>
    /\ frames[1].out.commands = { 32 }
    /\ ~frames[1].out.panic

\* every bit set: every command from 1 to 0x20, none from 0xC1 on
C32_AllBits ==
    /\ AvailableDecoded
    /\ frames[1].word = << 255, 255, 255, 255 >>
    /\ frames[1].out.commands = (1..25) \cup { 32 }

\* no link operation of the history saw a zero-length frame or report
NoAbortSeen == \A i \in 1..Len(frames) : frames[i].err # "Aborted"

\* C33: whenever an operation with an inbound data phase returns Ok and no
\* zero-length (abort) frame was received during it, the lengths of the DATA frames
\* read add up to exactly the length declared in the first CMD response.
C33_DeclaredLengthRead ==
    (InboundOpen /\ pc = <<>> /\ result.kind = "Ok" /\ NoAbortSeen) =>
        /\ Len(DataBytes) = Declared
        /\ Len(result.bytes) = Declared
        /\ \A i \in 1..Len(DataReads) : DataReads[i].err = "Ok"

\* read_memory returned Ok after two DATA frames of one byte each
C33_Witness ==
    /\ InboundOpen
    /\ op.name = "read_memory"
    /\ pc = <<>>
    /\ result.kind = "Ok"
    /\ NoAbortSeen
    /\ Declared = 2
    /\ Len(DataReads) = 2
    /\ Len(DataReads[1].payload) = 1
    /\ Len(result.bytes) = 2

\* fuse_read returned Ok with a declared length of zero: no DATA frame was read
C33_NothingDeclared ==
    /\ InboundOpen
    /\ op.name = "fuse_read"
    /\ pc = <<>>
    /\ result.kind = "Ok"
    /\ Declared = 0
    /\ DataReads = <<>>

\* on a session whose data-phase override is off the declared length is what is read
C33_DeclaredLengthReadUnmasked == ~mask_read_data_phase => C33_DeclaredLengthRead

\* a read_memory on a session left with the override set returned Ok without
\* reading any of the bytes its response declared
C33_MaskedSkipsData ==
    /\ InboundOpen
    /\ op.name = "read_memory"
    /\ mask_read_data_phase
    /\ pc = <<>>
    /\ result.kind = "Ok"
    /\ Declared = 2
    /\ DataReads = <<>>
    /\ Len(frames) = 2

\* the operation has returned and its result is not yet taken by the caller
Returned == pc = <<>> /\ result.kind # "none"

\* C34: the data-phase override is limited to a single command: provided
\* mask_read_data_phase was false when a public operation was called, it is false
\* again whenever that operation returns, with Ok or with any error, so that the
\* override set by key_provisioning never carries over to a later command. (A
\* session starts with the override off, so the statement amounts to: the override
\* is off whenever an operation has returned.)
C34_OverrideRestored == Returned => ~mask_read_data_phase

\* only key_provisioning, for an operation other than ReadKeyStore, changes the
\* override
C34_OnlyKeyProvisioning ==
    [][mask_read_data_phase' # mask_read_data_phase =>
          op'.name = "key_provisioning" /\ op'.sub # "ReadKeyStore"]_vars

\* key_provisioning returns with the override off unless its send_command failed
C34_RestoredUnlessSendFails ==
    (Returned /\ op.name = "key_provisioning" /\ op.sub # "ReadKeyStore"
       /\ mask_read_data_phase) =>
        result.kind # "Ok"

\* key_provisioning returned Ok: the override is off
C34_RestoredOnOk ==
    /\ Returned
    /\ op.name = "key_provisioning"
    /\ op.sub = "SetUserKey"
    /\ result.kind = "Ok"
    /\ ~mask_read_data_phase

\* a read_memory is running on a session whose override an earlier key_provisioning
\* left set
C34_CarriedOver ==
    /\ op.name = "read_memory"
    /\ pc # <<>>
    /\ mask_read_data_phase

\* read_command is in its data phase or past it, with the bytes of rc.buf in hand
InDataPhase == pc # <<>> /\ rc.phase \in { "data", "final" } /\ rc.first # <<>>

\* C35: in an inbound data phase with declared length L the engine never holds
\* more than L data bytes and stops reading DATA frames as soon as the accumulated
\* byte count has reached or passed L: if a DATA frame makes the total exceed L, no
\* further DATA frame is read and the operation terminates.
C35_StopsAtDeclared ==
    /\ InDataPhase =>
          /\ Len(rc.buf) <= rc.length
          /\ Len(rc.buf) >= rc.length => rc.phase = "final"
    /\ (InboundOpen /\ Returned) => Len(result.bytes) <= Declared

\* what the loop does: it goes on until the byte count equals the declared length
\* or a zero-length frame arrives, so that a count that has passed the declared
\* length keeps it reading
C35_ReadsUntilEqual ==
    InDataPhase =>
        /\ (rc.phase = "data") => Len(rc.buf) # rc.length
        /\ (rc.phase = "final" /\ NoAbortSeen) => Len(rc.buf) = rc.length

\* a DATA frame took the byte count past the declared length and the loop reads on
C35_Overshoot ==
    /\ InboundOpen
    /\ InDataPhase
    /\ rc.phase = "data"
    /\ rc.length = 2
    /\ Len(rc.buf) = 3
    /\ Len(DataReads) = 2

\* a further DATA read was attempted after the count had passed the declared length
C35_ReadAfterOvershoot ==
    /\ InboundOpen
    /\ Declared = 2
    /\ Len(DataReads) = 3
    /\ Len(DataReads[1].payload) + Len(DataReads[2].payload) = 3
    /\ DataReads[3].err # "Ok"
    /\ Returned
    /\ result.kind = "Err"

\* more bytes than declared were returned with Ok after a zero-length frame
C35_MoreThanDeclared ==
    /\ InboundOpen
    /\ Returned
    /\ result.kind = "Ok"
    /\ Declared = 2
    /\ Len(result.bytes) = 3

\* the MaxPacketSize query of an outbound operation was answered with the size m
\* (the response just read, or the size send_command went on with)
SizeReported(m) ==
    /\ HasOutbound
    /\ Len(frames) >= 2
    /\ Kind(frames[1]) = "wCMD" /\ frames[1].err = "Ok"
    /\ Kind(frames[2]) = "rCMD" /\ frames[2].err = "Ok"
    /\ Len(frames[2].head) = 6
    /\ frames[2].head[1] = GetPropertyResponseTag
    /\ frames[2].head[2] = NoData
    /\ HeadStatus(frames[2]).ok
    /\ is_success(HeadStatus(frames[2]).status)
    /\ IF Len(frames) = 2
       THEN /\ Len(lastRx.payload) = 12
            /\ FromLE32(SubSeq(lastRx.payload, 9, 12)) = m
       ELSE sc.max_packet_size = m

\* C36: if the device reports MaxPacketSize = 0, an operation with an outbound
\* data phase (write_memory, fuse_program, receive_sb_file, load_image,
\* key_provisioning SetUserKey / WriteKeyStore) returns an error; it does not
\* panic, does not loop forever, and writes no DATA frame.
C36_ZeroSizeIsError ==
    (SizeReported(0) /\ Returned) =>
        /\ result.kind = "Err"
        /\ DataWrites = <<>>

\* what the code does at a reported size of 0: no DATA frame is written and the
\* operation does not return Ok (unless receive_sb_file went on after an abort); it
\* returns an error only when a later step of send_command fails (load_image has
\* none) and panics in `data.chunks(0)` otherwise
C36_ZeroSizePanics ==
    SizeReported(0) =>
        /\ DataWrites = <<>>
        /\ (Returned /\ NoAbortSeen) => result.kind \in { "Err", "Panic" }
        /\ (Returned /\ result.kind = "Err") => Len(frames) > 2
        /\ (Returned /\ op.name = "load_image") => result.kind = "Panic"

\* write_memory panicked after the device reported a size of 0 and acknowledged the
\* command
C36_WriteMemoryPanics ==
    /\ SizeReported(0)
    /\ op.name = "write_memory"
    /\ Len(op.bytes) >= 1
    /\ Len(frames) = 4
    /\ Returned
    /\ result.kind = "Panic"

\* load_image, which sends no command of its own, panicked right after the query
C36_LoadImagePanics ==
    /\ SizeReported(0)
    /\ op.name = "load_image"
    /\ Len(frames) = 2
    /\ Returned
    /\ result.kind = "Panic"

\* an error was returned at a reported size of 0: the intermediate response failed
C36_ErrorBeforeChunks ==
    /\ SizeReported(0)
    /\ op.name = "key_provisioning"
    /\ Returned
    /\ result.kind = "Err"

\* C37: on I2C a two-byte acknowledgment read whose first byte is 5A is classified
\* exactly as on UART: kind A1 gives Ok, A2 gives NACKSent, A3 gives Aborted, and
\* any other kind byte gives InvalidHeader, returned immediately (the only
\* difference from UART being the pairs whose first byte is not 5A).
C37_I2CClassifiesAsUart ==
    I2CWrite =>
        LET acks == AckReads(LastOp)
        IN  \A k \in 1..Len(acks) :
                acks[k].bytes[1] = START =>
                    /\ k = Len(acks)
                    /\ LastOp.err = PairClass(acks[k].bytes)

\* what the I2C read_ack does: 5A A1, 5A A2 and 5A A3 end the wait with Ok,
\* NACKSent and Aborted; 5A followed by any other kind byte is skipped like a busy
\* pair, so that InvalidHeader never comes out of the wait
C37_UnknownKindSkipped ==
    I2CWrite =>
        LET acks == AckReads(LastOp)
        IN  /\ LastOp.err # "InvalidHeader"
            /\ \A k \in 1..Len(acks) :
                  IF acks[k].bytes[1] = START /\ acks[k].bytes[2] \in { ACK, NACK, ACK_ABORT }
                  THEN k = Len(acks) /\ LastOp.err = PairClass(acks[k].bytes)
                  ELSE k < Len(acks) \/ LastOp.err = "Timeout"

\* on I2C the pair 5A 00 was skipped and the acknowledgment after it accepted
C37_UnknownKindThenAck ==
    /\ I2CWrite
    /\ Len(AckReads(LastOp)) = 2
    /\ AckReads(LastOp)[1].bytes = << START, 0 >>
    /\ AckReads(LastOp)[2].bytes = << START, ACK >>
    /\ LastOp.err = "Ok"

\* on I2C the pair 5A 00 alone ended in Timeout; on UART it gives InvalidHeader
C37_UnknownKindTimesOut ==
    /\ I2CWrite
    /\ Len(AckReads(LastOp)) = 1
    /\ AckReads(LastOp)[1].bytes = << START, 0 >>
    /\ LastOp.err = "Timeout"

\* on I2C 5A A3 ended the wait with Aborted
C37_Classified ==
    /\ I2CWrite
    /\ Len(AckReads(LastOp)) = 1
    /\ AckReads(LastOp)[1].bytes = << START, ACK_ABORT >>
    /\ LastOp.err = "Aborted"

\* the last frame read was a CMD response whose status word is w
StatusWordReceived(w) ==
    /\ frames # <<>>
    /\ Kind(LastOp) = "rCMD"
    /\ LastOp.err = "Ok"
    /\ Len(LastOp.head) >= 6
    /\ FromLE32(SubSeq(LastOp.head, 3, 6)) = w

\* the result or error returned carries the status s
Carries(s) == result.kind \in { "Ok", "Err" } /\ result.status = s

\* C38: the status OtpVerifyFail (52009) reaches a caller only as the result of
\* the read-back comparison of flash_program_once: a CMD response whose status
\* word is 52009 is treated as a code outside the documented set
\* (UnexpectedStatus(UnknownStatusCode, 52009)) and never produces a result or an
\* error carrying OtpVerifyFail.
C38_OtpVerifyFailOnlyFromReadBack ==
    Returned =>
        /\ Carries(OtpVerifyFail) =>
              /\ op.name = "flash_program_once"
              /\ op.verify
              /\ result.kind = "Ok"
              /\ StatusWordReceived(Success)
        /\ (StatusWordReceived(OtpVerifyFail) /\ result.kind = "Err"
              /\ result.err = "UnexpectedStatus") =>
              /\ result.status = UnknownStatusCode
              /\ result.raw = OtpVerifyFail

\* what the code does: 52009 is a variant of StatusCode, so a response carrying it
\* is parsed as OtpVerifyFail and the operation returns
\* UnexpectedStatus(OtpVerifyFail, 52009); Ok(OtpVerifyFail) comes from the
\* read-back comparison only
C38_ReceivedOtpVerifyFail ==
    Returned =>
        /\ (Carries(OtpVerifyFail) /\ result.kind = "Ok") =>
              /\ op.name = "flash_program_once"
              /\ op.verify
              /\ StatusWordReceived(Success)
        /\ (Carries(OtpVerifyFail) /\ result.kind = "Err") =>
              /\ StatusWordReceived(OtpVerifyFail)
              /\ result = UnexpectedStatus(OtpVerifyFail, OtpVerifyFail)
        /\ (StatusWordReceived(OtpVerifyFail) /\ ~mask_read_data_phase
              /\ result.kind = "Err" /\ result.err = "UnexpectedStatus") =>
              result.status = OtpVerifyFail

\* reset was answered with the status 52009 and returned an error carrying
\* OtpVerifyFail
C38_ResetCarries ==
    /\ Returned
    /\ op.name = "reset"
    /\ StatusWordReceived(OtpVerifyFail)
    /\ result = UnexpectedStatus(OtpVerifyFail, OtpVerifyFail)

\* an unknown status word comes out as UnknownStatusCode with the raw value
C38_UnknownCode ==
    /\ Returned
    /\ op.name = "reset"
    /\ StatusWordReceived(77)
    /\ result = UnexpectedStatus(UnknownStatusCode, 77)

\* the read-back comparison of flash_program_once returned OtpVerifyFail
C38_FromReadBack ==
    /\ Returned
    /\ op.name = "flash_program_once"
    /\ op.verify
    /\ Len(frames) = 4
    /\ StatusWordReceived(Success)
    /\ result.kind = "Ok"
    /\ result.status = OtpVerifyFail

\* the length field of a frame and the bytes that follow its header
LengthField(f) == f[3] + 256 * f[4]

PayloadOf(f) == Drop(f, 6)

\* the codec's last call ran the data phase of send_command
DataPhaseSent == frames # <<>> /\ frames[1].call = "data_phase"

\* C39: every frame the engine writes has a length field equal to the actual number
\* of payload bytes of that frame, for every reported MaxPacketSize (values above
\* 65535 included) and every input length; likewise the paramCount byte of every
\* CMD frame equals the actual number of parameter words.
C39_LengthFieldExact ==
    /\ DataPhaseSent =>
          \A i \in 1..Len(frames[1].out) :
              LengthField(frames[1].out[i]) = Len(PayloadOf(frames[1].out[i]))
    /\ CommandFrameBuilt =>
          /\ LengthField(frames[1].packet) = Len(PayloadOf(frames[1].packet))
          /\ PayloadOf(frames[1].packet)[4] = Len(frames[1].params)
          /\ Len(PayloadOf(frames[1].packet)) = 4 + 4 * Len(frames[1].params)

\* what the code does: the data goes out whole and in order in chunks of
\* max_packet_size bytes, and the length field is the chunk length cut to 16 bits;
\* the CMD frames, of at most 7 parameter words, have exact length and paramCount
C39_LengthFieldTruncated ==
    /\ DataPhaseSent =>
          LET out == frames[1].out
              m   == frames[1].max_packet_size
          IN  /\ Len(out) = Chunks(Len(frames[1].data), m)
              /\ \A i \in 1..Len(out) :
                    /\ out[i][1] = START /\ out[i][2] = DATA_PHASE_CODE
                    /\ PayloadOf(out[i]) =
                           SubSeq(frames[1].data, (i - 1) * m + 1, Min(i * m, Len(frames[1].data)))
                    /\ LengthField(out[i]) = Len(PayloadOf(out[i])) % 65536
    /\ CommandFrameBuilt =>
          /\ LengthField(frames[1].packet) = Len(PayloadOf(frames[1].packet))
          /\ PayloadOf(frames[1].packet)[4] = Len(frames[1].params)
          /\ Len(PayloadOf(frames[1].packet)) = 4 + 4 * Len(frames[1].params)

\* a chunk of 65536 bytes or more went out with a length field that is not its length
C39_LengthWrapped ==
    /\ DataPhaseSent
    /\ frames[1].max_packet_size >= 65536
    /\ Len(frames[1].out) >= 1
    /\ Len(PayloadOf(frames[1].out[1])) >= 65536
    /\ LengthField(frames[1].out[1]) = Len(PayloadOf(frames[1].out[1])) - 65536

\* at a packet size of 65535 the long input went out in two frames with exact
\* length fields
C39_LargestExact ==
    /\ DataPhaseSent
    /\ frames[1].max_packet_size = 65535
    /\ Len(frames[1].out) = 2
    /\ LengthField(frames[1].out[1]) = 65535
    /\ Len(PayloadOf(frames[1].out[1])) = 65535

\* a short input at a packet size above 65535: one frame, exact length field
C39_ShortAtLargeSize ==
    /\ DataPhaseSent
    /\ frames[1].max_packet_size > 65535
    /\ Len(frames[1].data) = 3
    /\ Len(frames[1].out) = 1
    /\ LengthField(frames[1].out[1]) = 3

\* a command frame of three parameter words was built
C39_ParamCount ==
    /\ CommandFrameBuilt
    /\ Len(frames[1].params) = 3
    /\ PayloadOf(frames[1].packet)[4] = 3

====
